---- MODULE Spec2Model ----
(***************************************************************************)
(* A model of the retrieval core of github-repo-explorer-agent:            *)
(*   - GraphLoader (backend/core/graph_loader.py) writing to the graph     *)
(*     store through Neo4jClient.run,                                      *)
(*   - VectorRetriever.chunk_code (backend/core/retriever.py),             *)
(*   - FileExplorer (backend/core/file_explorer.py),                       *)
(*   - DynamicGraphQueryTool (backend/core/graph_query_tool.py).           *)
(* Each component has its own variables, initial predicate and next-state  *)
(* relation; a component's specification leaves the other components'      *)
(* variables at their initial values.                                      *)
(***************************************************************************)
EXTENDS Integers, Sequences, FiniteSets, TLC

VARIABLES
    \* ---- graph store and GraphLoader
    graph,        \* the store: [nodes: key -> [cnt, props], edges: set of <<type, from, to>>]
    base,         \* the graph when the current series of loads of one metadata began
    cur,          \* the metadata of the load_repository call in progress / last made
    pc,           \* index in Ops(cur) of the next store call of load_repository; 0 = not running
    status,       \* "idle" | "running" | "done" | "failed" (a store call raised)
    ncalls,       \* number of calls made to the loader so far
    series,       \* [n: loads of cur made in a row, failed: one of them was interrupted]
    last,         \* the last store call made: [kind, op, applied, before]
    interrupted,  \* some load_repository call of this behaviour was ended by a store failure
    writes,       \* the statements the load_repository call in progress / last made has
                  \* sent to the store, in order
    cpc,          \* number of constraint statements GraphLoader.__init__ has sent
    requested,    \* the <<label, field>> of the constraints requested so far, in order
    constraintFailed,  \* some constraint request raised
    \* ---- VectorRetriever.chunk_code
    content,      \* the lines of content.split("\n"), each given by its length
    chunk_size,
    overlap,
    idx,          \* number of lines the for loop has taken
    chunks,       \* the chunks appended so far, each the sequence of its line numbers
    current_chunk,
    current_size,
    cstate,       \* "off" | "loop" | "done"
    \* ---- FileExplorer
    feCall,       \* the last call: [op, repo_name, path, max_depth, query, pattern]
    feRet,        \* the text it returned: [kind, detail]
    feTouched,    \* the filesystem entries it called exists, is_file, is_dir, open,
                  \* iterdir or stat on, each by its real location
    \* ---- DynamicGraphQueryTool (it runs its queries on graph)
    qCall,        \* the last call: [op, arg, max_results, llm, outcomes]
    qRet,         \* the text it returned, a sequence of segments; <<>> is the empty text
    qRaised,      \* the call raised instead of returning
    storeCalls,   \* the queries the call sent to Neo4jClient.run, in order
    qRecords,     \* the records the store returned to the call
    qBefore,      \* the graph when the call was made
    \* ---- two load_repository calls running concurrently on graph
    par           \* [loads: the two calls, each [m, pc]; turn: the call that made the
                  \*  last store call; switches: times the turn changed]

VARIABLES
    \* ---- Neo4jClient.__init__
    conn          \* [n: max_retries; attempt: attempts made; errors: the error of each
                  \*  failed attempt; waits: the seconds slept, in order; state: "off" |
                  \*  "trying" | "connected" | "returned" | "raised"; raised: the error raised]

VARIABLES
    \* ---- one repository URL through the bootstrap pipeline, run after run
    pipe          \* [phase: where the run is; run: runs started; abandoned: a run was
                  \*  killed; repo: the clone directory; doc: the scan result in memory;
                  \*  meta: the metadata file; index: the scans whose chunks are in the
                  \*  vector index; loaded: the scan last loaded into the graph;
                  \*  log: the stages of the current run, as <<stage, "start" | "end">>]

VARIABLES
    \* ---- RepoIngester.scan_repository
    scan          \* [repo_name; conds: the condition of each file of the tree ("ok" |
                  \*  "unreadable" | "syntax_error"); idx: files the loop has taken;
                  \*  files_metadata: the entries appended; state: "off" | "loop" |
                  \*  "done" | "raised"]

VARIABLES
    \* ---- VectorRetriever.add_documents and add_repo_to_index
    \* vec: the entries of the collection, the
    \* call in progress (documents, batch_size, the offset i of the loop), the
    \* batches given to the embedding provider and those the store took, the
    \* entries the call added, the collection as the call found it, the
    \* outcome, and what the store does with an id it already holds
    vec

VARIABLES
    \* ---- FileExplorer._build_tree, call by call
    build         \* [state: "off" | "running" | "done"; repo_name, max_depth: the
                  \*  arguments of tree_structure; stack: the calls of _build_tree in
                  \*  progress, as [path, depth, items, i]; lines: the lines of the
                  \*  output so far, as <<depth, path of the entry>>]

VARIABLES
    \* ---- GraphLoader._load_function on two function entries of one run
    ids           \* [state: "off" | "start" | "one" | "both"; first, second: the
                  \*  entries, as [file_path, name, line]; graph: the store]

VARIABLES
    \* ---- VectorRetriever.get_embeddings
    emb           \* [state: "off" | "idle" | "sent" | "returned" | "raised"; texts: the
                  \*  argument; sent: the input given to the embedding provider]

VARIABLES
    \* ---- VectorRetriever.query
    srch          \* [state: "off" | "idle" | "returned" | "raised"; coll: the entries
                  \*  of the collection; query_text, k: the arguments; results: the
                  \*  list returned]

loaderVars == <<graph, base, cur, pc, status, ncalls, series, last, interrupted,
                writes, cpc, requested, constraintFailed>>
chunkVars == <<content, chunk_size, overlap, idx, chunks, current_chunk, current_size, cstate>>

feVars == <<feCall, feRet, feTouched>>
queryVars == <<qCall, qRet, qRaised, storeCalls, qRecords, qBefore>>

(* The components that keep their state in one record each, as they are   *)
(* before any call is made to them.                                        *)

ParOff == par = [loads |-> <<>>, turn |-> 0, switches |-> 0]
ConnOff == conn = [n |-> 0, attempt |-> 0, errors |-> <<>>, waits |-> <<>>, state |-> "off", raised |-> ""]
PipeOff == pipe = [phase |-> "idle", run |-> 0, abandoned |-> FALSE, repo |-> "absent", doc |-> "none", meta |-> "absent", index |-> {}, loaded |-> "none", log |-> <<>>]
ScanOff == scan = [repo_name |-> <<>>, conds |-> <<>>, idx |-> 0, files_metadata |-> <<>>, state |-> "off"]
VecOff == vec = [state |-> "off", existing |-> "", coll |-> {}, op |-> "", documents |-> <<>>, batch_size |-> 0, i |-> 0, embedded |-> <<>>, stored |-> <<>>, added |-> {}, before |-> {}, cause |-> "", calls |-> 0]
BuildOff == build = [state |-> "off", repo_name |-> <<>>, max_depth |-> 0, stack |-> <<>>, lines |-> <<>>]
IdsOff == ids = [state |-> "off", first |-> <<>>, second |-> <<>>, graph |-> [nodes |-> <<>>, edges |-> {}]]
EmbOff == emb = [state |-> "off", texts |-> <<>>, sent |-> <<>>]
SrchOff == srch = [state |-> "off", coll |-> {}, query_text |-> <<>>, k |-> 0, results |-> <<>>]

extVars == <<par, conn, pipe, scan, vec, build, ids, emb, srch>>
ExtOff == ParOff /\ ConnOff /\ PipeOff /\ ScanOff /\ VecOff /\ BuildOff /\ IdsOff /\ EmbOff /\ SrchOff

\* what the actions of one of them leave alone, and the others before any call
notPar == <<conn, pipe, scan, vec, build, ids, emb, srch>>
OffButPar == ConnOff /\ PipeOff /\ ScanOff /\ VecOff /\ BuildOff /\ IdsOff /\ EmbOff /\ SrchOff
notConn == <<par, pipe, scan, vec, build, ids, emb, srch>>
OffButConn == ParOff /\ PipeOff /\ ScanOff /\ VecOff /\ BuildOff /\ IdsOff /\ EmbOff /\ SrchOff
notPipe == <<par, conn, scan, vec, build, ids, emb, srch>>
OffButPipe == ParOff /\ ConnOff /\ ScanOff /\ VecOff /\ BuildOff /\ IdsOff /\ EmbOff /\ SrchOff
notScan == <<par, conn, pipe, vec, build, ids, emb, srch>>
OffButScan == ParOff /\ ConnOff /\ PipeOff /\ VecOff /\ BuildOff /\ IdsOff /\ EmbOff /\ SrchOff
notVec == <<par, conn, pipe, scan, build, ids, emb, srch>>
OffButVec == ParOff /\ ConnOff /\ PipeOff /\ ScanOff /\ BuildOff /\ IdsOff /\ EmbOff /\ SrchOff
notBuild == <<par, conn, pipe, scan, vec, ids, emb, srch>>
OffButBuild == ParOff /\ ConnOff /\ PipeOff /\ ScanOff /\ VecOff /\ IdsOff /\ EmbOff /\ SrchOff
notIds == <<par, conn, pipe, scan, vec, build, emb, srch>>
OffButIds == ParOff /\ ConnOff /\ PipeOff /\ ScanOff /\ VecOff /\ BuildOff /\ EmbOff /\ SrchOff
notEmb == <<par, conn, pipe, scan, vec, build, ids, srch>>
OffButEmb == ParOff /\ ConnOff /\ PipeOff /\ ScanOff /\ VecOff /\ BuildOff /\ IdsOff /\ SrchOff
notSrch == <<par, conn, pipe, scan, vec, build, ids, emb>>
OffButSrch == ParOff /\ ConnOff /\ PipeOff /\ ScanOff /\ VecOff /\ BuildOff /\ IdsOff /\ EmbOff

\* end of the components

vars == <<loaderVars, chunkVars, feVars, queryVars, extVars>>

\* what the actions of one component leave alone
notLoader == <<chunkVars, feVars, queryVars, extVars>>
notChunk == <<loaderVars, feVars, queryVars, extVars>>
notFe == <<loaderVars, chunkVars, queryVars, extVars>>
notQuery == <<chunkVars, feVars, extVars>>
baseVars == <<loaderVars, chunkVars, feVars, queryVars>>

-----------------------------------------------------------------------------
(* Bounds of the model *)

\* number of calls (load_repository, _load_function, _load_class) in one behaviour
MaxCalls == 3
\* chunk_code: number of lines of the content, length of a line, and the
\* largest chunk_size and overlap tried (the smallest tried is -1)
MaxLines == 4
MaxLineLen == 2
MaxChunkSize == 5
MaxOverlap == 3
\* FileExplorer: number of components of a path argument, and the largest max_depth
MaxPathLen == 3
MaxDepth == 3
\* DynamicGraphQueryTool: tokens of a query text, records the store returns
MaxQueryLen == 3
MaxRecords == 3
\* the text of the sized example: TextChars characters over TextLines lines
TextChars == 2500
TextLines == 50
ManyRecords == 150
\* Neo4jClient: max_retries up to
MaxRetries == 5
\* bootstrap: runs of the pipeline for one URL
MaxRuns == 3

\* vector index: documents of one add_documents call, batch_size, calls
MaxDocs == 2
MaxBatch == 2
MaxIndexCalls == 2

\* get_embeddings: texts in one call; query: results asked for
MaxTexts == 3
MaxK == 2
\* concurrent loads: changes of turn counted up to
MaxSwitches == 3

-----------------------------------------------------------------------------
(* Small helpers *)

Min(a, b) == IF a < b THEN a ELSE b
Max(a, b) == IF a > b THEN a ELSE b

RECURSIVE Concat(_)
\* the concatenation of a sequence of sequences
Concat(ss) == IF ss = <<>> THEN <<>> ELSE Head(ss) \o Concat(Tail(ss))


-----------------------------------------------------------------------------
(* Repository Metadata documents: the inputs of load_repository.           *)
(* Shape as written by RepoIngester.scan_repository.                       *)

Fn(name, line, doc) == [name |-> name, line |-> line, args |-> <<>>, docstring |-> doc]
Cls(name, line, doc) == [name |-> name, line |-> line, methods |-> <<>>, docstring |-> doc]
FileInfo(path, full, lines, fns, clss, imps) ==
    [path |-> path, full_path |-> full, lines |-> lines,
     functions |-> fns, classes |-> clss, imports |-> imps]
Commit(sha, author, msg) == [sha |-> sha, author |-> author, date |-> "d", message |-> msg]

RECURSIVE SumLen(_, _)
SumLen(files, field) ==
    IF files = <<>> THEN 0 ELSE Len(Head(files)[field]) + SumLen(Tail(files), field)

Metadata(name, path, files, commits) ==
    [name |-> name, path |-> path, files |-> files, commits |-> commits,
     total_files |-> Len(files),
     total_functions |-> SumLen(files, "functions"),
     total_classes |-> SumLen(files, "classes")]

\* repository r1 as first scanned
MetaA ==
    Metadata("r1", "/d/r1",
        << FileInfo("a.py", "/d/r1/a.py", 10,
                    << Fn("foo", 1, "doc") >>, << Cls("K", 5, "") >>, << "os" >>) >>,
        << Commit("c1", "ann", "init") >>)

\* repository r1 scanned again after a change: a.py lost its class and its foo
\* moved, b.py is new, one more commit
MetaB ==
    Metadata("r1", "/d/r1",
        << FileInfo("a.py", "/d/r1/a.py", 12, << Fn("foo", 2, "doc2") >>, <<>>, << "re" >>),
           FileInfo("b.py", "/d/r1/b.py", 3, <<>>, <<>>, << "os" >>) >>,
        << Commit("c2", "bob", "fix"), Commit("c1", "ann", "init") >>)

\* another repository, importing a module r1 imports too
MetaC ==
    Metadata("r2", "/d/r2",
        << FileInfo("c.py", "/d/r2/c.py", 7, << Fn("foo", 1, "") >>, <<>>, << "os" >>) >>,
        <<>>)

MetaSet == {MetaA, MetaB, MetaC}

NoMeta == [name |-> "", path |-> "", files |-> <<>>, commits |-> <<>>,
           total_files |-> 0, total_functions |-> 0, total_classes |-> 0]

-----------------------------------------------------------------------------
(* The graph store.  A node is identified by <<label, key>>; cnt is the    *)
(* number of nodes of that label and key in the store (1 when the writes   *)
(* are upserts).                                                           *)

NoKey == <<"", "">>
NoProps == <<>>
EmptyGraph == [nodes |-> <<>>, edges |-> {}]

HasNode(g, k) == k \in DOMAIN g.nodes

\* a variant of MergeNode that never matches: one more node, whatever is there
CreateNode(g, k, set, props) ==
    [g EXCEPT !.nodes =
        IF HasNode(g, k)
        THEN [g.nodes EXCEPT ![k] = [cnt |-> @.cnt + 1, props |-> IF set THEN props ELSE @.props]]
        ELSE (k :> [cnt |-> 1, props |-> props]) @@ g.nodes]

\* MERGE (n:Label {key}) [SET n.x = ...]: match the node by key or create it;
\* SET overwrites the properties of the matched or created node
MergeNode(g, k, set, props) ==
    [g EXCEPT !.nodes =
        IF HasNode(g, k)
        THEN [g.nodes EXCEPT ![k] = [cnt |-> @.cnt, props |-> IF set THEN props ELSE @.props]]
        ELSE (k :> [cnt |-> 1, props |-> props]) @@ g.nodes]

\* MERGE (a)-[:REL]->(b)
MergeEdge(g, rel, a, b) == [g EXCEPT !.edges = @ \cup {<<rel, a, b>>}]

\* a variant of the store that creates the node of a statement without matching it
RunCreate(g, op) ==
    IF op.match # NoKey /\ ~HasNode(g, op.match)
    THEN g
    ELSE LET g1 == CreateNode(g, op.node, op.set, op.props)
         IN  IF op.match = NoKey THEN g1 ELSE MergeEdge(g1, op.rel, op.match, op.node)

\* a variant of the store in which a Repository statement starts the
\* repository over: what the store held is dropped
RunReplace(g, op) ==
    LET g0 == IF op.kind = "repo" THEN EmptyGraph ELSE g
    IN  IF op.match # NoKey /\ ~HasNode(g0, op.match)
        THEN g0
        ELSE LET g1 == MergeNode(g0, op.node, op.set, op.props)
             IN  IF op.match = NoKey THEN g1 ELSE MergeEdge(g1, op.rel, op.match, op.node)

\* Neo4jClient.run of one of the loader's statements:
\*   [MATCH (a {match})] MERGE (n {node}) [SET ...] [MERGE (a)-[:rel]->(n)]
\* A MATCH that finds no row ends the statement with no write and no error.
Run(g, op) ==
    IF op.match # NoKey /\ ~HasNode(g, op.match)
    THEN g
    ELSE LET g1 == MergeNode(g, op.node, op.set, op.props)
         IN  IF op.match = NoKey THEN g1 ELSE MergeEdge(g1, op.rel, op.match, op.node)

-----------------------------------------------------------------------------
(* GraphLoader: the statements load_repository sends, in order *)

Stmt(kind, match, node, set, props, rel) ==
    [kind |-> kind, match |-> match, node |-> node, set |-> set, props |-> props, rel |-> rel]

\* a variant of the id that puts nothing between its three parts
FuncIdNoSeparator(file_path, name, line) == file_path \o name \o ToString(line)

\* f"{file_path}::{name}::{line}"
FuncId(file_path, name, line) == file_path \o "::" \o name \o "::" \o ToString(line)

RepositoryStmt(m) ==
    Stmt("repo", NoKey, <<"Repository", m.name>>, TRUE,
         <<m.path, m.total_files, m.total_functions, m.total_classes>>, "")

FileStmt(repo_name, fi) ==
    Stmt("file", <<"Repository", repo_name>>, <<"File", fi.full_path>>, TRUE,
         <<fi.path, fi.lines>>, "CONTAINS")

\* a variant of _load_function that merges the Function node without matching the File
LoadFunctionNoMatch(file_path, func) ==
    Stmt("func", NoKey, <<"Function", FuncId(file_path, func.name, func.line)>>, TRUE,
         <<func.name, func.line, func.args, func.docstring>>, "DEFINES")

LoadFunction(file_path, func) ==
    Stmt("func", <<"File", file_path>>,
         <<"Function", FuncId(file_path, func.name, func.line)>>, TRUE,
         <<func.name, func.line, func.args, func.docstring>>, "DEFINES")

LoadClass(file_path, cls) ==
    Stmt("class", <<"File", file_path>>,
         <<"Class", FuncId(file_path, cls.name, cls.line)>>, TRUE,
         <<cls.name, cls.line, cls.methods, cls.docstring>>, "DEFINES")

LoadImport(file_path, import_name) ==
    Stmt("import", <<"File", file_path>>, <<"Module", import_name>>, FALSE, NoProps, "IMPORTS")

LoadCommit(repo_name, commit) ==
    Stmt("commit", <<"Repository", repo_name>>, <<"Commit", commit.sha>>, TRUE,
         <<commit.author, commit.date, commit.message>>, "HAS_COMMIT")

\* _load_file: the File statement, then the file's functions, classes, imports
LoadFile(repo_name, fi) ==
    << FileStmt(repo_name, fi) >>
    \o [i \in 1..Len(fi.functions) |-> LoadFunction(fi.full_path, fi.functions[i])]
    \o [i \in 1..Len(fi.classes) |-> LoadClass(fi.full_path, fi.classes[i])]
    \o [i \in 1..Len(fi.imports) |-> LoadImport(fi.full_path, fi.imports[i])]

\* a variant of load_repository that loads the commits before the files
OpsCommitsFirst(m) ==
    << RepositoryStmt(m) >>
    \o [i \in 1..Len(m.commits) |-> LoadCommit(m.name, m.commits[i])]
    \o Concat([i \in 1..Len(m.files) |-> LoadFile(m.name, m.files[i])])

\* load_repository: Repository statement, every file in order, then the commits
Ops(m) ==
    << RepositoryStmt(m) >>
    \o Concat([i \in 1..Len(m.files) |-> LoadFile(m.name, m.files[i])])
    \o [i \in 1..Len(m.commits) |-> LoadCommit(m.name, m.commits[i])]

RECURSIVE RunAll(_, _)
\* the store after the statements ops have run in order, none failing
RunAll(g, ops) == IF ops = <<>> THEN g ELSE RunAll(Run(g, Head(ops)), Tail(ops))

\* one uninterrupted load_repository(m) on graph g
FullLoad(g, m) == RunAll(g, Ops(m))

-----------------------------------------------------------------------------
(* GraphLoader as a state machine *)

NoStep == [kind |-> "none", op |-> Stmt("", NoKey, NoKey, FALSE, NoProps, ""), applied |-> FALSE,
           before |-> EmptyGraph]

\* the key field of each node label: the property its MERGE clause matches on
KeyFields ==
    { <<"Repository", "name">>, <<"File", "full_path">>, <<"Function", "id">>,
      <<"Class", "id">>, <<"Module", "name">>, <<"Commit", "sha">> }

\* _create_constraints: the uniqueness constraints, as <<label, field>>
constraints ==
    << <<"Repository", "name">>, <<"File", "full_path">>, <<"Function", "id">>,
       <<"Class", "id">>, <<"Commit", "sha">> >>

\* GraphLoader(neo4j_client) is called: no constraint statement sent yet
InitLoader ==
    /\ graph = EmptyGraph
    /\ base = EmptyGraph
    /\ cur = NoMeta
    /\ pc = 0
    /\ status = "idle"
    /\ ncalls = 0
    /\ series = [n |-> 0, failed |-> FALSE]
    /\ last = NoStep
    /\ interrupted = FALSE
    /\ writes = <<>>
    /\ cpc = 0
    /\ requested = <<>>
    /\ constraintFailed = FALSE

\* __init__: one iteration of "for constraint in constraints"; the statement
\* runs or raises, and the handler logs and goes on
CreateConstraint ==
    /\ cpc < Len(constraints)
    /\ cpc' = cpc + 1
    /\ requested' = Append(requested, constraints[cpc + 1])
    /\ \E raises \in BOOLEAN : constraintFailed' = (constraintFailed \/ raises)
    /\ UNCHANGED <<graph, base, cur, pc, status, ncalls, series, last, interrupted, writes>>
    /\ UNCHANGED notLoader

\* load_repository(m) is called: the first statement is about to be sent.
\* A call with the metadata of the previous call continues the series.
BeginLoad ==
    /\ cpc = Len(constraints)
    /\ status # "running"
    /\ ncalls < MaxCalls
    /\ \E m \in MetaSet :
        /\ cur' = m
        /\ IF m = cur /\ series.n > 0
           THEN /\ base' = base
                /\ series' = [series EXCEPT !.n = @ + 1]
           ELSE /\ base' = graph
                /\ series' = [n |-> 1, failed |-> FALSE]
    /\ pc' = 1
    /\ status' = "running"
    /\ ncalls' = ncalls + 1
    /\ last' = NoStep
    /\ writes' = <<>>
    /\ UNCHANGED <<graph, interrupted, cpc, requested, constraintFailed>>
    /\ UNCHANGED notLoader

\* the next statement of the running load_repository succeeds
StoreCall ==
    /\ status = "running"
    /\ LET op == Ops(cur)[pc]
       IN  /\ graph' = Run(graph, op)
           /\ last' = [kind |-> "load", op |-> op, applied |-> TRUE, before |-> graph]
           /\ writes' = Append(writes, op)
    /\ IF pc = Len(Ops(cur))
       THEN pc' = 0 /\ status' = "done"
       ELSE pc' = pc + 1 /\ status' = "running"
    /\ UNCHANGED <<base, cur, ncalls, series, interrupted, cpc, requested, constraintFailed>>
    /\ UNCHANGED notLoader

\* the next statement raises (the store is unreachable, the session breaks):
\* load_repository has no handler, the exception ends it.  The statement is
\* one auto-commit transaction: it was either not applied or applied whole.
StoreFail ==
    /\ status = "running"
    /\ \E applied \in BOOLEAN :
        LET op == Ops(cur)[pc]
        IN  /\ graph' = IF applied THEN Run(graph, op) ELSE graph
            /\ last' = [kind |-> "fail", op |-> op, applied |-> applied, before |-> graph]
            /\ writes' = Append(writes, op)
    /\ pc' = 0
    /\ status' = "failed"
    /\ series' = [series EXCEPT !.failed = TRUE]
    /\ interrupted' = TRUE
    /\ UNCHANGED <<base, cur, ncalls, cpc, requested, constraintFailed>>
    /\ UNCHANGED notLoader

FilePaths == {"/d/r1/a.py", "/d/r1/b.py", "/d/r9/z.py"}

\* _load_function(file_path, func) or _load_class(file_path, cls) called on its own
CallLoadEntity ==
    /\ cpc = Len(constraints)
    /\ status # "running"
    /\ ncalls < MaxCalls
    /\ \E fp \in FilePaths, isClass \in BOOLEAN :
        LET op == IF isClass THEN LoadClass(fp, Cls("K", 5, "x"))
                  ELSE LoadFunction(fp, Fn("foo", 1, "x"))
        IN  /\ graph' = Run(graph, op)
            /\ last' = [kind |-> "entity", op |-> op, applied |-> TRUE, before |-> graph]
    /\ base' = graph'
    /\ cur' = NoMeta
    /\ series' = [n |-> 0, failed |-> FALSE]
    /\ pc' = 0
    /\ status' = "idle"
    /\ ncalls' = ncalls + 1
    /\ writes' = <<>>
    /\ UNCHANGED <<interrupted, cpc, requested, constraintFailed>>
    /\ UNCHANGED notLoader

NextLoader == CreateConstraint \/ BeginLoad \/ StoreCall \/ StoreFail \/ CallLoadEntity

-----------------------------------------------------------------------------
(* VectorRetriever.chunk_code.  A line is represented by its number in     *)
(* content.split("\n") and its length; a chunk, the text                   *)
(* "\n".join(current_chunk), by the sequence of its line numbers.          *)

\* len("\n".join(lines)) for the lines numbered ls of content c
RECURSIVE SumLens(_, _)
SumLens(c, ls) == IF ls = <<>> THEN 0 ELSE c[Head(ls)] + SumLens(c, Tail(ls))
TextLen(c, ls) == IF ls = <<>> THEN 0 ELSE SumLens(c, ls) + Len(ls) - 1

RECURSIVE OverlapWalk(_, _, _, _, _, _)
\* for l in reversed(current_chunk): overlap_size += len(l) + 1;
\*     overlap_lines.insert(0, l); if overlap_size >= overlap: break
OverlapWalk(c, cc, j, ov, lines, size) ==
    IF j = 0 THEN [lines |-> lines, size |-> size]
    ELSE LET size1 == size + c[cc[j]] + 1
             lines1 == <<cc[j]>> \o lines
         IN  IF size1 >= ov THEN [lines |-> lines1, size |-> size1]
             ELSE OverlapWalk(c, cc, j - 1, ov, lines1, size1)

\* a variant that keeps the closed chunk's size as the size of the overlap
KeepOverlapStaleSize(c, cc, ov, closed_size) ==
    [lines |-> OverlapWalk(c, cc, Len(cc), ov, <<>>, 0).lines, size |-> closed_size]

\* a variant that keeps the last line of the closed chunk and no more
KeepOverlapLastLine(c, cc, ov, closed_size) ==
    [lines |-> << cc[Len(cc)] >>, size |-> c[cc[Len(cc)]] + 1]

\* the overlap kept from the chunk cc just closed: [lines, size]
KeepOverlap(c, cc, ov, closed_size) == OverlapWalk(c, cc, Len(cc), ov, <<>>, 0)

\* a variant that forgets the lines left after the last closed chunk
FinalChunksDropTail(chs, cc) == chs

\* if current_chunk: chunks.append("\n".join(current_chunk))
FinalChunks(chs, cc) == IF cc # <<>> THEN Append(chs, cc) ELSE chs

ChunkOff ==
    /\ content = <<>>
    /\ chunk_size = 0
    /\ overlap = 0
    /\ idx = 0
    /\ chunks = <<>>
    /\ current_chunk = <<>>
    /\ current_size = 0
    /\ cstate = "off"

ChunkStart ==
    /\ idx = 0
    /\ chunks = <<>>
    /\ current_chunk = <<>>
    /\ current_size = 0
    /\ cstate = "loop"

\* chunk_code(content, chunk_size, overlap) is entered, for every content of
\* 1..MaxLines lines (split never returns an empty list)
InitChunk ==
    /\ \E n \in 1..MaxLines : content \in [1..n -> 0..MaxLineLen]
    /\ chunk_size \in (-1)..MaxChunkSize
    /\ overlap \in (-1)..MaxOverlap
    /\ ChunkStart

\* the defaults of chunk_code's parameters
DefaultChunkSize == 1000
DefaultOverlap == 200

\* the characters of the lines of a text of TextChars characters on TextLines
\* lines, the TextLines - 1 newlines taken off
LineChars == TextChars - (TextLines - 1)

\* a text of TextChars characters on TextLines lines: k lines of a characters (the
\* first k, or the last k), the other lines sharing the rest evenly
SizedText(a, k, front) ==
    LET m == TextLines - k
        rest == LineChars - k * a
        even == [j \in 1..m |-> (rest \div m) + (IF j <= rest % m THEN 1 ELSE 0)]
        fixed == [j \in 1..k |-> a]
    IN  IF front THEN fixed \o even ELSE even \o fixed

\* chunk_code(content) with the default chunk_size and overlap on the sized texts
InitChunkSized ==
    /\ \E a \in {0, 1, 9, 48, 49, 50, 99, 199, 200, 999, 1000, 2000},
          k \in 0..(TextLines - 1), front \in BOOLEAN :
          /\ k * a <= LineChars
          /\ content = SizedText(a, k, front)
    /\ chunk_size = DefaultChunkSize
    /\ overlap = DefaultOverlap
    /\ ChunkStart

\* one iteration of "for line in lines"
ChunkLine ==
    /\ cstate = "loop"
    /\ idx < Len(content)
    /\ idx' = idx + 1
    /\ LET cc == Append(current_chunk, idx + 1)
           cs == current_size + content[idx + 1] + 1
       IN  IF cs >= chunk_size
           THEN LET keep == KeepOverlap(content, cc, overlap, cs)
                IN  /\ chunks' = Append(chunks, cc)
                    /\ current_chunk' = keep.lines
                    /\ current_size' = keep.size
           ELSE /\ chunks' = chunks
                /\ current_chunk' = cc
                /\ current_size' = cs
    /\ UNCHANGED <<content, chunk_size, overlap, cstate>>
    /\ UNCHANGED notChunk

\* the loop is over: the last chunk is appended and chunks returned
ChunkReturn ==
    /\ cstate = "loop"
    /\ idx = Len(content)
    /\ chunks' = FinalChunks(chunks, current_chunk)
    /\ cstate' = "done"
    /\ UNCHANGED <<content, chunk_size, overlap, idx, current_chunk, current_size>>
    /\ UNCHANGED notChunk

NextChunk == ChunkLine \/ ChunkReturn

-----------------------------------------------------------------------------
(* The filesystem FileExplorer works on.  A location is the sequence of    *)
(* names from the root.  base_path is /data; /etc is outside it.           *)

Dirs == { <<>>, <<"data">>, <<"data", "r1">>, <<"data", "r1", "src">>,
          <<"data", "r1", ".git">>, <<"data", "r2">>, <<"etc">> }
Files == { <<"data", "r1", "a.py">>, <<"data", "r1", "src", "b.py">>,
           <<"data", "r1", ".git", "HEAD">>, <<"data", "r2", "c.py">>,
           <<"etc", "passwd">> }
\* /data/r1/lnk is a symbolic link to /etc, /data/r2/loop one to /data/r2,
\* the directory it is in
Links == { <<"data", "r1", "lnk">>, <<"data", "r2", "loop">> }
LinkTarget(l) == IF l = <<"data", "r2", "loop">> THEN <<"data", "r2">> ELSE <<"etc">>
Entries == Dirs \cup Files \cup Links
FileSize(f) == Len(f) + Len(f[Len(f)])

base_path == <<"data">>

\* names in Python's string order
NameOrder == <<"..", ".git", "HEAD", "a.py", "b.py", "c.py", "data", "etc", "lnk",
               "loop", "passwd", "r1", "r2", "src">>
NameRank(n) == CHOOSE i \in 1..Len(NameOrder) : NameOrder[i] = n

Parent(loc) == IF loc = <<>> THEN <<>> ELSE SubSeq(loc, 1, Len(loc) - 1)
IsPrefix(a, b) == Len(a) <= Len(b) /\ SubSeq(b, 1, Len(a)) = a

\* a path argument: absolute or relative, and its components ("." and "" dropped)
Arg(abs, parts) == [abs |-> abs, parts |-> parts]
\* pathlib's p / arg: an absolute argument replaces p
Join(p, arg) == IF arg.abs THEN arg.parts ELSE p \o arg.parts

RECURSIVE Resolve(_, _)
\* Path.resolve() (os.path.realpath, not strict): ".." steps to the parent,
\* a symbolic link is replaced by its target, a missing name is kept
Resolve(at, rest) ==
    IF rest = <<>> THEN at
    ELSE LET c == Head(rest)
             new == Append(at, c)
         IN  IF c = ".." THEN Resolve(Parent(at), Tail(rest))
             ELSE IF new \in Links THEN Resolve(<<>>, LinkTarget(new) \o Tail(rest))
             ELSE Resolve(new, Tail(rest))

RECURSIVE Lookup(_, _)
\* the operating system's lookup of a path, as exists(), is_file(), is_dir(),
\* open(), iterdir() and stat() make it: [ok, at], at the entry found, or the
\* location where the lookup stopped
Lookup(at, rest) ==
    IF rest = <<>> THEN [ok |-> TRUE, at |-> at]
    ELSE IF at \notin Dirs THEN [ok |-> FALSE, at |-> at]
    ELSE LET c == Head(rest)
             new == Append(at, c)
         IN  IF c = ".." THEN Lookup(Parent(at), Tail(rest))
             ELSE IF new \in Links THEN Lookup(<<>>, LinkTarget(new) \o Tail(rest))
             ELSE IF new \in Dirs \cup Files THEN Lookup(new, Tail(rest))
             ELSE [ok |-> FALSE, at |-> new]

Exists(p) == Lookup(<<>>, p).ok
IsFile(p) == Lookup(<<>>, p).ok /\ Lookup(<<>>, p).at \in Files
IsDir(p) == Lookup(<<>>, p).ok /\ Lookup(<<>>, p).at \in Dirs
At(p) == Lookup(<<>>, p).at

\* the entries of directory location d, as paths under the path p given to iterdir
Children(d) == {e \in Entries : e # <<>> /\ Parent(e) = d}

RECURSIVE SortedNames(_)
\* sorted(path.iterdir(), key=lambda p: (not p.is_dir(), p.name)), the names
SortKey(p, n) == (IF IsDir(Append(p, n)) THEN 0 ELSE 100) + NameRank(n)
SortedItems(p, names) ==
    SortSeq(SortedNames(names), LAMBDA a, b : SortKey(p, a) < SortKey(p, b))
SortedNames(names) ==
    IF names = {} THEN <<>>
    ELSE LET n == CHOOSE x \in names : \A y \in names : NameRank(x) <= NameRank(y)
         IN  <<n>> \o SortedNames(names \ {n})

ItemNames(p) == {e[Len(e)] : e \in Children(At(p))}

\* a variant of the check that compares the paths as written
IsInsideUnresolved(full_path, root) == IsPrefix(root, full_path)

\* full_path.resolve().relative_to(root.resolve()) does not raise ValueError
IsInside(full_path, root) == IsPrefix(Resolve(<<>>, root), Resolve(<<>>, full_path))

Ret(kind, detail, touched) == [kind |-> kind, detail |-> detail, touched |-> touched]

\* read_file(repo_name, file_path)
ReadFile(repo_name, file_path) ==
    LET root == Join(base_path, repo_name)
        full_path == Join(root, file_path)
    IN  IF ~IsInside(full_path, root) THEN Ret("access_denied", <<>>, {})
        ELSE IF ~Exists(full_path) THEN Ret("file_not_found", <<>>, {At(full_path)})
        ELSE IF ~IsFile(full_path) THEN Ret("not_a_file", <<>>, {At(full_path)})
        ELSE Ret("file_content", At(full_path), {At(full_path)})

\* list_directory(repo_name, dir_path): each item is asked is_dir(), a
\* non-directory item stat(), both through symbolic links
ListDirectory(repo_name, dir_path) ==
    LET repo_path == Join(base_path, repo_name)
        target_path == Join(repo_path, dir_path)
    IN  IF ~IsInside(target_path, repo_path) THEN Ret("access_denied", <<>>, {})
        ELSE IF ~Exists(target_path) THEN Ret("dir_not_found", <<>>, {At(target_path)})
        ELSE IF ~IsDir(target_path) THEN Ret("not_a_dir", <<>>, {At(target_path)})
        ELSE Ret("dir_contents", SortedItems(target_path, ItemNames(target_path)),
                 {At(target_path)}
                 \cup {At(Append(target_path, n)) : n \in ItemNames(target_path)})

\* file_exists(repo_name, file_path)
FileExists(repo_name, file_path) ==
    LET full_path == Join(Join(base_path, repo_name), file_path)
    IN  IF Exists(full_path)
        THEN IF IsFile(full_path)
             THEN Ret("file_exists", FileSize(At(full_path)), {At(full_path)})
             ELSE Ret("exists_is_dir", <<>>, {At(full_path)})
        ELSE Ret("file_does_not_exist", <<>>, {At(full_path)})

ignore_dirs == {".git", "__pycache__", ".venv", "venv", "node_modules", ".env",
                ".pytest_cache", ".egg-info"}

RECURSIVE BuildTree(_, _, _)
\* _build_tree(path, prefix, current_depth, max_depth): [lines, touched], a
\* line being <<depth, name>>
BuildTree(path, current_depth, max_depth) ==
    IF current_depth >= max_depth THEN [lines |-> <<>>, touched |-> {}]
    ELSE LET items == SortedItems(path, ItemNames(path) \ ignore_dirs)
             sub == [i \in 1..Len(items) |->
                       IF IsDir(Append(path, items[i]))
                       THEN BuildTree(Append(path, items[i]), current_depth + 1, max_depth)
                       ELSE [lines |-> <<>>, touched |-> {}]]
         IN  [lines |-> Concat([i \in 1..Len(items) |->
                          << <<current_depth, items[i]>> >> \o sub[i].lines]),
              touched |-> {At(path)}
                   \cup {At(Append(path, n)) : n \in ItemNames(path)}
                   \cup UNION {sub[i].touched : i \in 1..Len(items)}]

\* tree_structure(repo_name, max_depth); iterdir on a file raises, which the
\* handler turns into the error text
TreeStructure(repo_name, max_depth) ==
    LET repo_path == Join(base_path, repo_name)
    IN  IF ~Exists(repo_path) THEN Ret("repo_not_found", <<>>, {At(repo_path)})
        ELSE IF ~IsDir(repo_path) /\ max_depth > 0
        THEN Ret("error", <<>>, {At(repo_path)})
        ELSE Ret("tree", BuildTree(repo_path, 0, max_depth).lines,
                 {At(repo_path)} \cup BuildTree(repo_path, 0, max_depth).touched)

\* the file names that contain the query, lower-cased, and those a pattern matches
Containing(query) ==
    CASE query = "" -> {"HEAD", "a.py", "b.py", "c.py", "passwd"}
      [] query = "py" -> {"a.py", "b.py", "c.py"}
      [] query = "PASS" -> {"passwd"}
Matching(pattern) ==
    CASE pattern = "*" -> {"HEAD", "a.py", "b.py", "c.py", "passwd"}
      [] pattern = "*.py" -> {"a.py", "b.py", "c.py"}

RECURSIVE Walk(_, _)
\* os.walk(repo_path) with the ignored directories pruned; a symbolic link to
\* a directory is not walked into: [files, touched], files relative to top
Walk(top, rel) ==
    LET here == At(top \o rel)
        names == {e[Len(e)] : e \in Children(here)}
        subdirs == {n \in names : Append(here, n) \in Dirs /\ n \notin
                       {".git", "__pycache__", ".venv", "venv", "node_modules", ".egg-info"}}
        subs == [n \in subdirs |-> Walk(top, Append(rel, n))]
    IN  IF here \notin Dirs THEN [files |-> {}, touched |-> {here}]
        ELSE [files |-> {Append(rel, n) : n \in {x \in names : Append(here, x) \in Files}}
                        \cup UNION {subs[n].files : n \in subdirs},
              touched |-> {here} \cup {Append(here, n) : n \in names}
                        \cup UNION {subs[n].touched : n \in subdirs}]

\* search_files(repo_name, query, file_pattern): the matching files, unordered
\* here (their order is the order os.walk meets them in)
SearchFiles(repo_name, query, file_pattern) ==
    LET repo_path == Join(base_path, repo_name)
        w == Walk(repo_path, <<>>)
        found == {f \in w.files :
                    f[Len(f)] \in Matching(file_pattern) \cap Containing(query)}
    IN  IF ~Exists(repo_path) THEN Ret("repo_not_found", <<>>, {At(repo_path)})
        ELSE IF found = {} THEN Ret("no_files_found", <<>>, w.touched)
        ELSE Ret("found", found, w.touched)

-----------------------------------------------------------------------------
(* FileExplorer as a state machine.  The operations keep no state between  *)
(* calls, so a behaviour is one call on the filesystem above.              *)

PathNames == {"..", "a.py", "src", "lnk", "etc", "passwd"}
Paths == UNION {[1..n -> PathNames] : n \in 0..MaxPathLen}
PathArgs == {Arg(abs, p) : abs \in BOOLEAN, p \in Paths}
RepoArgs == {Arg(FALSE, <<"r1">>), Arg(FALSE, <<"r2">>), Arg(FALSE, <<"nope">>),
             Arg(FALSE, <<"..">>), Arg(FALSE, <<"..", "etc">>), Arg(TRUE, <<"etc">>),
             Arg(FALSE, <<"r1", "a.py">>)}

Call(op, repo_name, path, max_depth, query, pattern) ==
    [op |-> op, repo_name |-> repo_name, path |-> path, max_depth |-> max_depth,
     query |-> query, pattern |-> pattern]
NoArg == Arg(FALSE, <<>>)

FeOff ==
    /\ feCall = Call("none", NoArg, NoArg, 0, "", "")
    /\ feRet = [kind |-> "none", detail |-> <<>>]
    /\ feTouched = {}

Returns(r) ==
    /\ feRet' = [kind |-> r.kind, detail |-> r.detail]
    /\ feTouched' = r.touched

CallReadFile ==
    /\ feCall.op = "none"
    /\ \E repo_name \in RepoArgs, file_path \in PathArgs :
        /\ feCall' = Call("read_file", repo_name, file_path, 0, "", "")
        /\ Returns(ReadFile(repo_name, file_path))
    /\ UNCHANGED notFe

CallListDirectory ==
    /\ feCall.op = "none"
    /\ \E repo_name \in RepoArgs, dir_path \in PathArgs :
        /\ feCall' = Call("list_directory", repo_name, dir_path, 0, "", "")
        /\ Returns(ListDirectory(repo_name, dir_path))
    /\ UNCHANGED notFe

CallFileExists ==
    /\ feCall.op = "none"
    /\ \E repo_name \in RepoArgs, file_path \in PathArgs :
        /\ feCall' = Call("file_exists", repo_name, file_path, 0, "", "")
        /\ Returns(FileExists(repo_name, file_path))
    /\ UNCHANGED notFe

CallTreeStructure ==
    /\ feCall.op = "none"
    /\ \E repo_name \in RepoArgs, max_depth \in (-1)..MaxDepth :
        /\ feCall' = Call("tree_structure", repo_name, NoArg, max_depth, "", "")
        /\ Returns(TreeStructure(repo_name, max_depth))
    /\ UNCHANGED notFe

CallSearchFiles ==
    /\ feCall.op = "none"
    /\ \E repo_name \in RepoArgs, query \in {"", "py", "PASS"}, pattern \in {"*", "*.py"} :
        /\ feCall' = Call("search_files", repo_name, NoArg, 0, query, pattern)
        /\ Returns(SearchFiles(repo_name, query, pattern))
    /\ UNCHANGED notFe

NextFe ==
    \/ CallReadFile
    \/ CallListDirectory
    \/ CallFileExists
    \/ CallTreeStructure
    \/ CallSearchFiles

-----------------------------------------------------------------------------
(* DynamicGraphQueryTool.  A text is a sequence of tokens: the code fence   *)
(* (three backquotes), the word "cypher", a blank, the words of a query. A  *)
(* Python value is [type, val]; the text a method returns is a sequence of  *)
(* segments, <<>> being the empty string.                                   *)

\* max_results: int = 100
DefaultMaxResults == 100

\* the three backquotes of a markdown code fence
Fence == "<fence>"
Blank == " "
\* a newline, and the characters \s and str.strip() take for whitespace
NL == "<newline>"
Whitespace == {Blank, NL}
Keywords == {"MATCH", "CREATE", "MERGE", "DELETE"}
QueryWords == Keywords \cup {"RETURN"}

Str(toks) == [type |-> "str", val |-> toks]
PyNone == [type |-> "none", val |-> <<>>]
\* bool(v) of a Python value
Truthy(v) ==
    CASE v.type = "none" -> FALSE
      [] v.type = "int" -> v.val # <<"0">>
      [] OTHER -> v.val # <<>>

RECURSIVE LStrip(_)
LStrip(t) == IF t # <<>> /\ Head(t) \in Whitespace THEN LStrip(Tail(t)) ELSE t
RECURSIVE RStrip(_)
RStrip(t) ==
    IF t # <<>> /\ t[Len(t)] \in Whitespace THEN RStrip(SubSeq(t, 1, Len(t) - 1)) ELSE t
\* str.strip()
Strip(t) == LStrip(RStrip(t))

\* _clean_query(query):
\*   re.sub(r"^```(?:cypher)?\s*", "", query): a fence at the very start, an
\*   optional "cypher" and the whitespace after it are removed;
\*   re.sub(r"\s*```$", "", query): a fence at the very end, or before one last
\*   newline, is removed with the whitespace before it;
\*   then the text is stripped
CleanQuery(t) ==
    LET a == IF t # <<>> /\ Head(t) = Fence
             THEN LET r == Tail(t)
                  IN  LStrip(IF r # <<>> /\ Head(r) = "cypher" THEN Tail(r) ELSE r)
             ELSE t
        n == Len(a)
        b == IF n >= 1 /\ a[n] = Fence
             THEN RStrip(SubSeq(a, 1, n - 1))
             ELSE IF n >= 2 /\ a[n] = NL /\ a[n - 1] = Fence
             THEN Append(RStrip(SubSeq(a, 1, n - 2)), NL)
             ELSE a
    IN  Strip(b)

\* the store's reading of a query text: [explain, word], or unparseable
Words(q) == SelectSeq(q, LAMBDA x : x \notin Whitespace)
Parseable(q) ==
    \/ Len(Words(q)) = 1 /\ Words(q)[1] \in QueryWords
    \/ Len(Words(q)) = 2 /\ Words(q)[1] = "EXPLAIN" /\ Words(q)[2] \in QueryWords

\* what a query that the store runs does to the graph
Effect(g, q) ==
    LET w == Words(q)[1]
        k == <<"Scratch", "x">>
    IN  CASE w = "CREATE" ->
               [g EXCEPT !.nodes =
                   IF HasNode(g, k)
                   THEN [g.nodes EXCEPT ![k] = [cnt |-> @.cnt + 1, props |-> NoProps]]
                   ELSE (k :> [cnt |-> 1, props |-> NoProps]) @@ g.nodes]
          [] w = "MERGE" -> MergeNode(g, k, TRUE, NoProps)
          [] w = "DELETE" -> EmptyGraph
          [] OTHER -> g

\* Neo4jClient.run(q) of a caller's query, the store being in the condition o
\* = [raise, n]: it raises (always on a text it cannot parse), or runs the
\* query and returns n records
StoreRun(g, q, o) ==
    IF o.raise \/ ~Parseable(q)
    THEN [raised |-> TRUE, records |-> <<>>, graph |-> g]
    ELSE [raised |-> FALSE, records |-> [i \in 1..o.n |-> i], graph |-> Effect(g, q)]

\* results[:max_results]
Slice(results, m) ==
    IF m >= 0 THEN SubSeq(results, 1, Min(m, Len(results)))
    ELSE SubSeq(results, 1, Max(Len(results) + m, 0))

\* the result of a method body: it returned text, or raised
Out(raised, text, calls, g, records) ==
    [raised |-> raised, text |-> text, calls |-> calls, graph |-> g, records |-> records]

\* a variant that shows one record more than max_results
FormatResultsOneMore(results, max_results) ==
    IF results = <<>> THEN [raised |-> FALSE, text |-> << <<"no_results_found">> >>]
    ELSE IF ~max_results.int THEN [raised |-> TRUE, text |-> <<>>]
    ELSE LET shown == Slice(results, max_results.n + 1)
         IN  [raised |-> FALSE,
              text |-> << <<"query_returned", Len(results)>> >>
                 \o [i \in 1..Len(shown) |-> <<"result", i, shown[i]>>]
                 \o (IF Len(results) > max_results.n
                     THEN << <<"more_results", Len(results) - max_results.n>> >>
                     ELSE <<>>)]

\* _format_results(results, max_results): [raised, text]; a max_results that
\* is None passes the slice and raises TypeError at the comparison
FormatResults(results, max_results) ==
    IF results = <<>> THEN [raised |-> FALSE, text |-> << <<"no_results_found">> >>]
    ELSE IF ~max_results.int THEN [raised |-> TRUE, text |-> <<>>]
    ELSE LET shown == Slice(results, max_results.n)
         IN  [raised |-> FALSE,
              text |-> << <<"query_returned", Len(results)>> >>
                 \o [i \in 1..Len(shown) |-> <<"result", i, shown[i]>>]
                 \o (IF Len(results) > max_results.n
                     THEN << <<"more_results", Len(results) - max_results.n>> >>
                     ELSE <<>>)]

\* a variant of the check that leaves out isinstance
IsInvalidQueryFalsy(v) == ~Truthy(v)

\* not cypher_query or not isinstance(cypher_query, str)
IsInvalidQuery(v) == ~Truthy(v) \/ v.type # "str"

\* the try block of execute_query
ExecuteQueryTry(g, v, max_results, o) ==
    IF IsInvalidQuery(v) THEN Out(FALSE, << <<"invalid_query">> >>, <<>>, g, <<>>)
    ELSE IF v.type # "str" THEN Out(TRUE, <<>>, <<>>, g, <<>>)    \* re.sub raises TypeError
    ELSE LET q == CleanQuery(v.val)
             r == StoreRun(g, q, o)
             f == FormatResults(r.records, max_results)
         IN  IF r.raised THEN Out(TRUE, <<>>, <<q>>, r.graph, <<>>)
             ELSE IF r.records = <<>>
             THEN Out(FALSE, << <<"no_results">> >>, <<q>>, r.graph, r.records)
             ELSE Out(f.raised, f.text, <<q>>, r.graph, r.records)

\* a variant without the except clause
ExecuteQueryNoExcept(g, v, max_results, o) == ExecuteQueryTry(g, v, max_results, o)

\* execute_query(cypher_query, max_results): except Exception returns the error text
ExecuteQuery(g, v, max_results, o) ==
    LET t == ExecuteQueryTry(g, v, max_results, o)
    IN  IF t.raised THEN [t EXCEPT !.raised = FALSE, !.text = << <<"error_executing_query">> >>]
        ELSE t

\* query_from_natural_language(question, max_results); llm is "none" (not
\* initialised), "raise" (invoke raises) or the text it generates
QueryFromNaturalLanguage(g, question, max_results, llm, o) ==
    IF llm.type = "none"
    THEN Out(FALSE, << <<"llm_not_initialized">> >>, <<>>, g, <<>>)
    ELSE IF question.type # "str" \/ llm.type = "raise"
    THEN Out(FALSE, << <<"error_generating_and_executing">> >>, <<>>, g, <<>>)
    ELSE LET cypher_query == CleanQuery(Strip(llm.val))
             t == ExecuteQuery(g, Str(cypher_query), max_results, o)
         IN  IF t.raised
             THEN [t EXCEPT !.raised = FALSE,
                            !.text = << <<"error_generating_and_executing">> >>]
             ELSE t

\* validate_query(cypher_query); oe and o are the store's condition at the
\* EXPLAIN call and at the direct call that follows a failed EXPLAIN
ValidateQuery(g, v, oe, o) ==
    IF v.type # "str" THEN Out(FALSE, << <<"validation_error">> >>, <<>>, g, <<>>)
    ELSE LET q == CleanQuery(v.val)
             e == StoreRun(g, <<"EXPLAIN", Blank>> \o q, oe)
             d == StoreRun(g, q, o)
         IN  IF q = <<>> THEN Out(FALSE, << <<"empty_query">> >>, <<>>, g, <<>>)
             ELSE IF \A i \in 1..Len(q) : q[i] \notin Keywords
             THEN Out(FALSE, << <<"no_keyword">> >>, <<>>, g, <<>>)
             ELSE IF ~e.raised
             THEN Out(FALSE, << <<"syntax_valid">> >>, << <<"EXPLAIN", Blank>> \o q >>, g, <<>>)
             ELSE IF ~d.raised
             THEN Out(FALSE, << <<"syntax_valid">> >>,
                      << <<"EXPLAIN", Blank>> \o q, q >>, d.graph, <<>>)
             ELSE Out(FALSE, << <<"query_validation_error">> >>,
                      << <<"EXPLAIN", Blank>> \o q, q >>, g, <<>>)

-----------------------------------------------------------------------------
(* DynamicGraphQueryTool as a state machine: a behaviour is one call *)

\* the texts: up to MaxQueryLen tokens, the query words all the same word
Shapes == UNION {[1..n -> {Fence, "cypher", Blank, "Q"}] : n \in 0..MaxQueryLen}
Fill(shape, w) == [i \in 1..Len(shape) |-> IF shape[i] = "Q" THEN w ELSE shape[i]]
\* a query in a markdown code block, with or without whitespace around it
Around == {<<>>, <<Blank>>, <<NL>>, <<NL, NL>>}
Fenced(w) ==
    {ws1 \o <<Fence>> \o lang \o <<w>> \o <<NL, Fence>> \o ws2 :
         ws1 \in Around, ws2 \in Around, lang \in {<<>>, <<NL>>, <<"cypher", NL>>}}
Texts == {Fill(sh, w) : sh \in Shapes, w \in QueryWords}
         \cup UNION {Fenced(w) : w \in {"RETURN", "MERGE"}}

QueryArgs ==
    {Str(t) : t \in Texts}
    \cup {PyNone, [type |-> "int", val |-> <<"0">>], [type |-> "int", val |-> <<"5">>],
          [type |-> "list", val |-> <<>>], [type |-> "list", val |-> <<"x">>]}
\* max_results: small values, the default, and None
MaxResultsArgs ==
    {[int |-> TRUE, n |-> k] : k \in (-1)..(MaxRecords + 1)}
    \cup {[int |-> TRUE, n |-> DefaultMaxResults], [int |-> FALSE, n |-> 0]}
\* the store raises, or returns up to MaxRecords records, or ManyRecords
StoreOutcomes ==
    {[raise |-> TRUE, n |-> 0]}
    \cup {[raise |-> FALSE, n |-> k] : k \in (0..MaxRecords) \cup {ManyRecords}}
LlmOutcomes == {[type |-> "none", val |-> <<>>], [type |-> "raise", val |-> <<>>]}
               \cup {Str(t) : t \in Texts}

NoOutcome == [raise |-> FALSE, n |-> 0]
QCall(op, arg, max_results, llm, oe, o) ==
    [op |-> op, arg |-> arg, max_results |-> max_results, llm |-> llm, oe |-> oe, o |-> o]

QueryOff ==
    /\ qCall = QCall("none", PyNone, [int |-> TRUE, n |-> 0], PyNone, NoOutcome, NoOutcome)
    /\ qRet = <<>>
    /\ qRaised = FALSE
    /\ storeCalls = <<>>
    /\ qRecords = <<>>
    /\ qBefore = EmptyGraph

\* the tool on a store that holds a loaded repository, or nothing
InitQuery ==
    /\ QueryOff
    /\ graph \in {EmptyGraph, FullLoad(EmptyGraph, MetaA)}
    /\ base = EmptyGraph
    /\ cur = NoMeta
    /\ pc = 0
    /\ status = "idle"
    /\ ncalls = 0
    /\ series = [n |-> 0, failed |-> FALSE]
    /\ last = NoStep
    /\ interrupted = FALSE
    /\ writes = <<>>
    /\ cpc = 0
    /\ requested = <<>>
    /\ constraintFailed = FALSE

QReturns(t) ==
    /\ qRet' = t.text
    /\ qRaised' = t.raised
    /\ storeCalls' = t.calls
    /\ qRecords' = t.records
    /\ graph' = t.graph
    /\ qBefore' = graph
    /\ UNCHANGED <<base, cur, pc, status, ncalls, series, last, interrupted,
                   writes, cpc, requested, constraintFailed>>

CallExecuteQuery ==
    /\ qCall.op = "none"
    /\ \E v \in QueryArgs, m \in MaxResultsArgs, o \in StoreOutcomes :
        /\ qCall' = QCall("execute_query", v, m, PyNone, NoOutcome, o)
        /\ QReturns(ExecuteQuery(graph, v, m, o))
    /\ UNCHANGED notQuery

CallQueryFromNaturalLanguage ==
    /\ qCall.op = "none"
    /\ \E question \in {Str(<<"RETURN">>), PyNone}, m \in MaxResultsArgs,
          llm \in LlmOutcomes, o \in StoreOutcomes :
        /\ qCall' = QCall("query_from_natural_language", question, m, llm, NoOutcome, o)
        /\ QReturns(QueryFromNaturalLanguage(graph, question, m, llm, o))
    /\ UNCHANGED notQuery

CallValidateQuery ==
    /\ qCall.op = "none"
    /\ \E v \in QueryArgs, oe \in {NoOutcome, [raise |-> TRUE, n |-> 0]},
          o \in {NoOutcome, [raise |-> TRUE, n |-> 0]} :
        /\ qCall' = QCall("validate_query", v, [int |-> TRUE, n |-> 0], PyNone, oe, o)
        /\ QReturns(ValidateQuery(graph, v, oe, o))
    /\ UNCHANGED notQuery

NextQuery == CallExecuteQuery \/ CallQueryFromNaturalLanguage \/ CallValidateQuery

-----------------------------------------------------------------------------
(* Two load_repository calls, on metadata of different repositories, running *)
(* at the same time on one store with no lock.  Every Neo4jClient.run is one  *)
(* auto-commit statement; the calls interleave statement by statement.       *)

\* repository r2 as a fork of r1: it shares a commit with r1 and imports two
\* modules that r1's scans import
MetaD ==
    Metadata("r2", "/d/r2",
        << FileInfo("c.py", "/d/r2/c.py", 7, <<>>, << Cls("K", 5, "") >>, << "os", "re" >>) >>,
        << Commit("c1", "ann", "init") >>)

ParMetaSet == MetaSet \cup {MetaD}

\* the two calls have been made, on an empty store or on one that holds r1
InitPar ==
    /\ \E m1, m2 \in ParMetaSet :
          /\ m1.name # m2.name
          /\ par = [loads |-> << [m |-> m1, pc |-> 1], [m |-> m2, pc |-> 1] >>,
                    turn |-> 0, switches |-> 0]
    /\ graph \in {EmptyGraph, FullLoad(EmptyGraph, MetaA)}
    /\ base = graph
    /\ cur = NoMeta
    /\ pc = 0
    /\ status = "idle"
    /\ ncalls = 0
    /\ series = [n |-> 0, failed |-> FALSE]
    /\ last = NoStep
    /\ interrupted = FALSE
    /\ writes = <<>>
    /\ cpc = Len(constraints)
    /\ requested = constraints
    /\ constraintFailed = FALSE

ParDone(i) == par.loads[i].pc > Len(Ops(par.loads[i].m))

\* call i sends its next statement
ParStoreCall(i) ==
    /\ ~ParDone(i)
    /\ graph' = Run(graph, Ops(par.loads[i].m)[par.loads[i].pc])
    /\ par' = [loads |-> [par.loads EXCEPT ![i].pc = @ + 1],
               turn |-> i,
               switches |-> IF par.turn \notin {0, i}
                            THEN Min(par.switches + 1, MaxSwitches)
                            ELSE par.switches]
    /\ UNCHANGED <<base, cur, pc, status, ncalls, series, last, interrupted,
                   writes, cpc, requested, constraintFailed>>
    /\ UNCHANGED <<chunkVars, feVars, queryVars, notPar>>

FirstStoreCall == par.loads # <<>> /\ ParStoreCall(1)
SecondStoreCall == par.loads # <<>> /\ ParStoreCall(2)

NextPar == FirstStoreCall \/ SecondStoreCall

-----------------------------------------------------------------------------
(* Neo4jClient.__init__: the connection retry loop *)

\* the exceptions driver() / verify_connectivity() raise
ConnErrors == {"unavailable", "auth"}

\* a variant that waits twice the attempt number
WaitTimeLinear(attempt) == 2 * attempt

\* wait_time = 2**attempt
WaitTime(attempt) == 2 ^ attempt

\* Neo4jClient(max_retries=n) is called
InitConn ==
    \E n \in (-1)..MaxRetries :
        conn = [n |-> n, attempt |-> 0, errors |-> <<>>, waits |-> <<>>,
                state |-> "trying", raised |-> ""]

\* an iteration of the loop in which the driver connects: break
ConnectOk ==
    /\ conn.state = "trying"
    /\ conn.attempt < conn.n
    /\ conn' = [conn EXCEPT !.attempt = @ + 1, !.state = "connected"]
    /\ UNCHANGED <<baseVars, notConn>>

\* an iteration in which connecting raises e: sleep and go on, or, at the last
\* attempt, raise e
ConnectFail ==
    /\ conn.state = "trying"
    /\ conn.attempt < conn.n
    /\ \E e \in ConnErrors :
        conn' = IF conn.attempt < conn.n - 1
                THEN [conn EXCEPT !.attempt = @ + 1,
                                  !.errors = Append(@, e),
                                  !.waits = Append(@, WaitTime(conn.attempt))]
                ELSE [conn EXCEPT !.attempt = @ + 1,
                                  !.errors = Append(@, e),
                                  !.state = "raised",
                                  !.raised = e]
    /\ UNCHANGED <<baseVars, notConn>>

\* range(max_retries) is empty: __init__ returns with no driver
ConnectNone ==
    /\ conn.state = "trying"
    /\ conn.n <= 0
    /\ conn' = [conn EXCEPT !.state = "returned"]
    /\ UNCHANGED <<baseVars, notConn>>

NextConn == ConnectOk \/ ConnectFail \/ ConnectNone

-----------------------------------------------------------------------------
(* The bootstrap pipeline (ingestion/bootstrap.py main) for one repository  *)
(* URL, as the API runs it: a subprocess that the caller kills at its       *)
(* timeout.  The persisted state is the clone directory, the metadata file,  *)
(* the vector index and the graph.                                          *)
(*   repo:   "absent" | "partial" (a clone that was cut short) | "complete" *)
(*   meta:   "absent" | "truncated" (opened for writing, not yet written) | *)
(*           "of_partial" | "of_complete" (the scan of such a clone)        *)

\* a variant of main that loads the graph before it builds the index
StagesGraphFirst == <<"scan", "graph", "index">>

\* main: [1/3] ingest_repos, [2/3] add_repo_to_index, [3/3] load_from_metadata_dir
Stages == <<"scan", "index", "graph">>

StagePos(stage) == CHOOSE k \in 1..Len(Stages) : Stages[k] = stage
FirstPhase(stage) == IF stage = "scan" THEN "clone" ELSE stage

\* stage number k begins, or main returns when there is none
Enter(p, k) ==
    IF k > Len(Stages) THEN [p EXCEPT !.phase = "done"]
    ELSE [p EXCEPT !.phase = FirstPhase(Stages[k]),
                   !.log = Append(@, <<Stages[k], "start">>)]

\* a stage is over: the next statement of main begins the next one
Finish(p, stage) ==
    Enter([p EXCEPT !.log = Append(@, <<stage, "end">>)], StagePos(stage) + 1)

\* POST /ingest: subprocess.run(["python", "bootstrap.py", repo_url], timeout=600)
StartRun ==
    /\ pipe.phase \in {"idle", "done", "dead"}
    /\ pipe.run < MaxRuns
    /\ pipe' = Enter([pipe EXCEPT !.run = @ + 1, !.log = <<>>, !.doc = "none"], 1)
    /\ UNCHANGED <<baseVars, notPipe>>

\* clone_repo: repo_path.exists(), so the clone is skipped
CloneSkip ==
    /\ pipe.phase = "clone"
    /\ pipe.repo # "absent"
    /\ pipe' = [pipe EXCEPT !.phase = "scan"]
    /\ UNCHANGED <<baseVars, notPipe>>

\* clone_repo: Repo.clone_from creates repo_path and starts to fill it
CloneBegin ==
    /\ pipe.phase = "clone"
    /\ pipe.repo = "absent"
    /\ pipe' = [pipe EXCEPT !.phase = "cloning", !.repo = "partial"]
    /\ UNCHANGED <<baseVars, notPipe>>

\* Repo.clone_from returns
CloneEnd ==
    /\ pipe.phase = "cloning"
    /\ pipe' = [pipe EXCEPT !.phase = "scan", !.repo = "complete"]
    /\ UNCHANGED <<baseVars, notPipe>>

\* scan_repository up to repo_metadata: the files that are in repo_path
ScanFiles ==
    /\ pipe.phase = "scan"
    /\ pipe' = [pipe EXCEPT !.phase = "open",
                            !.doc = IF pipe.repo = "partial" THEN "of_partial"
                                    ELSE "of_complete"]
    /\ UNCHANGED <<baseVars, notPipe>>

\* open(metadata_file, "w"): the file is created or truncated
WriteOpen ==
    /\ pipe.phase = "open"
    /\ pipe' = [pipe EXCEPT !.phase = "writing", !.meta = "truncated"]
    /\ UNCHANGED <<baseVars, notPipe>>

\* json.dump and the end of the with block; ingest_repos returns
WriteEnd ==
    /\ pipe.phase = "writing"
    /\ pipe' = Finish([pipe EXCEPT !.meta = pipe.doc], "scan")
    /\ UNCHANGED <<baseVars, notPipe>>

\* the metadata file is read and its chunks added to the index
IndexStage ==
    /\ pipe.phase = "index"
    /\ pipe' = Finish([pipe EXCEPT !.index = @ \cup {pipe.meta}], "index")
    /\ UNCHANGED <<baseVars, notPipe>>

\* the metadata file is read and loaded into the graph
GraphStage ==
    /\ pipe.phase = "graph"
    /\ pipe' = Finish([pipe EXCEPT !.loaded = pipe.meta], "graph")
    /\ UNCHANGED <<baseVars, notPipe>>

\* subprocess.TimeoutExpired: the subprocess is killed where it is
Abandon ==
    /\ pipe.phase \notin {"idle", "done", "dead"}
    /\ pipe' = [pipe EXCEPT !.phase = "dead", !.abandoned = TRUE]
    /\ UNCHANGED <<baseVars, notPipe>>

NextPipe ==
    \/ StartRun
    \/ CloneSkip
    \/ CloneBegin
    \/ CloneEnd
    \/ ScanFiles
    \/ WriteOpen
    \/ WriteEnd
    \/ IndexStage
    \/ GraphStage
    \/ Abandon

-----------------------------------------------------------------------------
(* RepoIngester.scan_repository and extract_python_metadata.  A file name  *)
(* is a sequence of pieces of text, a path a sequence of names; str(path)  *)
(* is the names joined by "/".  The pieces ".git" and "venv" are the texts *)
(* the scan looks for; no other pieces put side by side spell them.        *)

\* the *.py entries below repo_path, in the order of rglob, relative to it
Tree ==
    << << <<"a", ".py">> >>,
       << <<".git">>, <<"hooks">>, <<"h", ".py">> >>,
       << <<"venv">>, <<"lib">>, <<"x", ".py">> >>,
       << <<".git", "hub">>, <<"scripts">>, <<"s", ".py">> >>,
       << <<"src">>, <<"venv", "_utils", ".py">> >>,
       << <<"src">>, <<"b", ".py">> >>,
       << <<"src">>, <<"pkg">>, <<"c", ".py">> >> >>

\* the names a repository URL gives: r1, pyvenv-tools
ScanRepoNames == { <<"r1">>, <<"py", "venv", "-tools">> }
FileConds == {"ok", "unreadable", "syntax_error"}

\* repo_path = repos_dir / repo_name, py_file = repo_path / relative path
RepoPath(repo_name) == << <<"data">>, <<"repos">>, repo_name >>
PyFile(repo_name, rel) == RepoPath(repo_name) \o rel

\* text in str(path)
TextIn(text, path) ==
    \E i \in 1..Len(path) : \E j \in 1..Len(path[i]) : path[i][j] = text

\* ".git" in str(py_file) or "venv" in str(py_file)
Skipped(py_file) == TextIn(".git", py_file) \/ TextIn("venv", py_file)

EmptyFileMeta ==
    [functions |-> <<>>, classes |-> <<>>, imports |-> <<>>, lines |-> 0, raised |-> FALSE]

\* a variant of extract_python_metadata without the except clause
ExtractNoExcept(cond) ==
    IF cond = "ok"
    THEN [functions |-> << Fn("f", 1, "") >>, classes |-> <<>>, imports |-> << "os" >>,
          lines |-> 3, raised |-> FALSE]
    ELSE [EmptyFileMeta EXCEPT !.raised = TRUE]

\* extract_python_metadata(file_path) of a file in condition cond: open/read
\* or ast.parse raise on a file that is not "ok", and the handler returns the
\* empty result
ExtractPythonMetadata(cond) ==
    IF cond = "ok"
    THEN [functions |-> << Fn("f", 1, "") >>, classes |-> <<>>, imports |-> << "os" >>,
          lines |-> 3, raised |-> FALSE]
    ELSE EmptyFileMeta

\* scan_repository(repo_path, repo_name) is called on the tree, its files in
\* any condition
InitScan ==
    \E rn \in ScanRepoNames, cs \in [1..Len(Tree) -> FileConds] :
        scan = [repo_name |-> rn, conds |-> cs, idx |-> 0, files_metadata |-> <<>>,
                state |-> "loop"]

\* one iteration of "for py_file in repo_path.rglob("*.py")"
ScanFile ==
    /\ scan.state = "loop"
    /\ scan.idx < Len(Tree)
    /\ LET rel == Tree[scan.idx + 1]
           py_file == PyFile(scan.repo_name, rel)
           metadata == ExtractPythonMetadata(scan.conds[scan.idx + 1])
       IN  scan' =
             IF Skipped(py_file) THEN [scan EXCEPT !.idx = @ + 1]
             ELSE IF metadata.raised THEN [scan EXCEPT !.idx = @ + 1, !.state = "raised"]
             ELSE [scan EXCEPT !.idx = @ + 1,
                               !.files_metadata = Append(@,
                                   [path |-> rel, full_path |-> py_file, n |-> scan.idx + 1,
                                    functions |-> metadata.functions,
                                    classes |-> metadata.classes,
                                    imports |-> metadata.imports,
                                    lines |-> metadata.lines])]
    /\ UNCHANGED <<baseVars, notScan>>

\* the loop is over: the git history is read (a failure gives no commits),
\* the document is written and returned
ScanReturn ==
    /\ scan.state = "loop"
    /\ scan.idx = Len(Tree)
    /\ scan' = [scan EXCEPT !.state = "done"]
    /\ UNCHANGED <<baseVars, notScan>>

NextScan == ScanFile \/ ScanReturn

-----------------------------------------------------------------------------
(* VectorRetriever.add_documents and add_repo_to_index on the collection.   *)
(* A chunk text is the content it was cut from with the numbers of its     *)
(* lines; an id repo::file::chunkN is the triple <<repo, file, N>>.        *)

RECURSIVE ChunkWalk(_, _, _, _, _, _, _)
\* the loop of chunk_code from line i on, and the chunks it returns
ChunkWalk(c, size, ov, i, chs, cc, cs) ==
    IF i > Len(c) THEN FinalChunks(chs, cc)
    ELSE LET cc1 == Append(cc, i)
             cs1 == cs + c[i] + 1
         IN  IF cs1 >= size
             THEN LET keep == KeepOverlap(c, cc1, ov, cs1)
                  IN  ChunkWalk(c, size, ov, i + 1, Append(chs, cc1), keep.lines, keep.size)
             ELSE ChunkWalk(c, size, ov, i + 1, chs, cc1, cs1)

\* self.chunk_code(content)
ChunkCode(c) == ChunkWalk(c, DefaultChunkSize, DefaultOverlap, 1, <<>>, <<>>, 0)

\* the default of add_documents' batch_size
DefaultBatchSize == 50

\* the text of the lines ls of content c
Text(c, ls) == [c |-> c, lines |-> ls]

\* get_embeddings, for one text: an empty text is embedded as " ", a text of
\* one character
Space == Text(<<1>>, <<1>>)
ValidText(text) == IF TextLen(text.c, text.lines) = 0 THEN Space ELSE text
Embed(text) == [model |-> "text-embedding-3-large", input |-> ValidText(text)]

Doc(id, text, metadata) == [id |-> id, text |-> text, metadata |-> metadata]

\* what collection.add is given for one document
Entry(doc) ==
    [id |-> doc.id, embedding |-> Embed(doc.text), document |-> doc.text,
     metadata |-> doc.metadata]

Ids(coll) == {e.id : e \in coll}

\* what the store does with an id it already holds: it rejects the request,
\* or it leaves the entry it holds as it is and goes on
ExistingIdPolicies == {"raise", "skip"}

\* collection.add(ids, embeddings, documents, metadatas) for one batch: an id
\* given twice in the request is rejected; an id the collection holds is
\* never written again
CollectionAdd(coll, batch, existing) ==
    LET known == {k \in 1..Len(batch) : batch[k].id \in Ids(coll)}
        twice == \E j, k \in 1..Len(batch) : j # k /\ batch[j].id = batch[k].id
    IN  IF twice THEN [raised |-> TRUE, cause |-> "duplicate", new |-> {}]
        ELSE IF known # {} /\ existing = "raise"
        THEN [raised |-> TRUE, cause |-> "existing", new |-> {}]
        ELSE [raised |-> FALSE, cause |-> "",
              new |-> {Entry(batch[k]) : k \in (1..Len(batch)) \ known}]

\* documents[i : i + batch_size]
Batch(documents, i, batch_size) ==
    SubSeq(documents, i + 1, Min(i + batch_size, Len(documents)))

\* the repository the index is built from: two files, and what a run finds
\* in each of them (None: the file cannot be read)
IndexRepo == "r1"
IndexFiles ==
    << [path |-> "a.py", functions |-> << Fn("f", 1, ""), Fn("g", 5, "") >>, classes |-> <<>>],
       [path |-> "b.py", functions |-> <<>>, classes |-> << Cls("K", 1, "") >>] >>
Unreadable == <<>>
IndexContents == { <<600, 600>>, <<10>>, <<0>>, Unreadable }

\* [f["name"] for f in ...], the names "," joins
NamesOf(items) == [k \in 1..Len(items) |-> items[k].name]

\* the documents of one file: one for each chunk of its content
FileDocuments(repo_name, file_info, text_read) ==
    IF text_read = Unreadable THEN <<>>
    ELSE LET chs == ChunkCode(text_read)
         IN  [n \in 1..Len(chs) |->
                 Doc(<<repo_name, file_info.path, n - 1>>, Text(text_read, chs[n]),
                     [repo |-> repo_name, file |-> file_info.path, chunk_index |-> n - 1,
                      functions |-> NamesOf(file_info.functions),
                      classes |-> NamesOf(file_info.classes)])]

\* the documents add_repo_to_index builds, the files having the contents cs
RepoDocuments(repo_name, files, cs) ==
    Concat([k \in 1..Len(files) |-> FileDocuments(repo_name, files[k], cs[k])])

\* the documents add_documents is called with directly
DocIds == { <<"r1", "a.py", 0>>, <<"r2", "z.py", 0>> }
DocTexts == { Text(<<10>>, <<1>>), Text(<<0>>, <<1>>) }
NoMetadata == <<>>
Docs == {Doc(id, t, NoMetadata) : id \in DocIds, t \in DocTexts}
DocSeqs == UNION {[1..n -> Docs] : n \in 0..MaxDocs}

\* VectorRetriever() has its collection, new or loaded
InitVec ==
    \E ex \in ExistingIdPolicies :
        vec = [state |-> "idle", existing |-> ex, coll |-> {}, op |-> "",
               documents |-> <<>>, batch_size |-> 0, i |-> 0, embedded |-> <<>>,
               stored |-> <<>>, added |-> {}, before |-> {}, cause |-> "", calls |-> 0]

VecIdle == vec.state \in {"idle", "returned", "raised"} /\ vec.calls < MaxIndexCalls

\* add_documents is entered
EnterAddDocuments(op, documents, batch_size) ==
    vec' = [vec EXCEPT !.state = "adding", !.op = op, !.documents = documents,
                       !.batch_size = batch_size, !.i = 0, !.embedded = <<>>,
                       !.stored = <<>>, !.added = {}, !.before = vec.coll,
                       !.cause = "", !.calls = @ + 1]

\* add_documents(documents, batch_size)
CallAddDocuments ==
    /\ VecIdle
    /\ \E documents \in DocSeqs, batch_size \in 1..MaxBatch :
           EnterAddDocuments("add_documents", documents, batch_size)
    /\ UNCHANGED <<baseVars, notVec>>

\* add_repo_to_index(repo_metadata): the documents are built and
\* add_documents(documents) is called
CallAddRepoToIndex ==
    /\ VecIdle
    /\ \E cs \in [1..Len(IndexFiles) -> IndexContents] :
           EnterAddDocuments("add_repo_to_index",
                             RepoDocuments(IndexRepo, IndexFiles, cs), DefaultBatchSize)
    /\ UNCHANGED <<baseVars, notVec>>

\* one iteration of the loop over the batches in which get_embeddings raises
EmbedRaises ==
    /\ vec.state = "adding"
    /\ vec.i < Len(vec.documents)
    /\ vec' = [vec EXCEPT !.state = "raised", !.cause = "embedding",
                          !.embedded = Append(@, Batch(vec.documents, vec.i, vec.batch_size))]
    /\ UNCHANGED <<baseVars, notVec>>

\* one iteration in which the store is not available to collection.add
AddRaises ==
    /\ vec.state = "adding"
    /\ vec.i < Len(vec.documents)
    /\ vec' = [vec EXCEPT !.state = "raised", !.cause = "store",
                          !.embedded = Append(@, Batch(vec.documents, vec.i, vec.batch_size))]
    /\ UNCHANGED <<baseVars, notVec>>

\* one iteration of the loop: the batch is embedded and given to
\* collection.add
AddBatch ==
    /\ vec.state = "adding"
    /\ vec.i < Len(vec.documents)
    /\ LET batch == Batch(vec.documents, vec.i, vec.batch_size)
           r == CollectionAdd(vec.coll, batch, vec.existing)
       IN  vec' =
             IF r.raised
             THEN [vec EXCEPT !.state = "raised", !.cause = r.cause,
                              !.embedded = Append(@, batch)]
             ELSE [vec EXCEPT !.i = @ + vec.batch_size,
                              !.embedded = Append(@, batch),
                              !.stored = Append(@, batch),
                              !.coll = @ \cup r.new,
                              !.added = @ \cup r.new]
    /\ UNCHANGED <<baseVars, notVec>>

\* the loop is over
AddReturn ==
    /\ vec.state = "adding"
    /\ vec.i >= Len(vec.documents)
    /\ vec' = [vec EXCEPT !.state = "returned"]
    /\ UNCHANGED <<baseVars, notVec>>

NextVec ==
    \/ CallAddDocuments
    \/ CallAddRepoToIndex
    \/ EmbedRaises
    \/ AddRaises
    \/ AddBatch
    \/ AddReturn

-----------------------------------------------------------------------------
(* FileExplorer._build_tree as the calls it makes: one frame for each call  *)
(* in progress, the loop over the items of a directory one item at a time.  *)

\* a variant that goes one level further down
DepthReachedLate(current_depth, max_depth) == current_depth > max_depth

\* if current_depth >= max_depth: return ""
DepthReached(current_depth, max_depth) == current_depth >= max_depth

\* _build_tree(path, prefix, current_depth, max_depth) is entered
Frame(path, current_depth, max_depth) ==
    [path |-> path, depth |-> current_depth, i |-> 0,
     items |-> IF DepthReached(current_depth, max_depth) THEN <<>>
               ELSE SortedItems(path, ItemNames(path) \ ignore_dirs)]

\* the repositories tree_structure is called on
TreeRepos == {<<"r1">>, <<"r2">>, <<"..">>, <<"r1", "src">>, <<"r2", "loop">>}

\* tree_structure(repo_name, max_depth) has found repo_path and calls
\* _build_tree(repo_path, "", 0, max_depth)
InitBuild ==
    \E repo_name \in TreeRepos, max_depth \in (-1)..MaxDepth :
        build = [state |-> "running", repo_name |-> repo_name, max_depth |-> max_depth,
                 stack |-> << Frame(base_path \o repo_name, 0, max_depth) >>,
                 lines |-> <<>>]

\* one iteration of "for i, item in enumerate(items)": the item's line is
\* added, and for a directory _build_tree is called on it
BuildItem ==
    /\ build.state = "running"
    /\ LET n == Len(build.stack)
           top == build.stack[n]
           item == Append(top.path, top.items[top.i + 1])
           on == [build.stack EXCEPT ![n].i = @ + 1]
       IN  /\ top.i < Len(top.items)
           /\ build' = [build EXCEPT
                  !.lines = Append(@, <<top.depth, item>>),
                  !.stack = IF IsDir(item)
                            THEN Append(on, Frame(item, top.depth + 1, build.max_depth))
                            ELSE on]
    /\ UNCHANGED <<baseVars, notBuild>>

\* a call of _build_tree returns its output to its caller
BuildReturn ==
    /\ build.state = "running"
    /\ LET n == Len(build.stack)
           top == build.stack[n]
       IN  /\ top.i = Len(top.items)
           /\ build' = [build EXCEPT
                  !.stack = SubSeq(@, 1, n - 1),
                  !.state = IF n = 1 THEN "done" ELSE "running"]
    /\ UNCHANGED <<baseVars, notBuild>>

NextBuild == BuildItem \/ BuildReturn

-----------------------------------------------------------------------------
(* Two function entries of one ingestion run, loaded one after the other.   *)
(* A name is what ast gives for a FunctionDef, an identifier; a line is     *)
(* node.lineno; a file path is any path of the file system, "::" in it too. *)

IdPaths == {"/d/r1/a.py", "/d/r1/a.py::f", "/d/r1/a.py::f::1", "/d/r1/a.py:", "/d/r1/a"}
IdNames == {"f", "f1", "f_", "py"}
IdLines == {1, 2, 11, 12}
IdEntries == [file_path : IdPaths, name : IdNames, line : IdLines]

\* the store once load_repository has loaded the files of the two entries
WithFiles(p1, p2) ==
    RunAll(EmptyGraph,
           << RepositoryStmt(Metadata("r1", "/d/r1", <<>>, <<>>)),
              FileStmt("r1", FileInfo("p1", p1, 1, <<>>, <<>>, <<>>)),
              FileStmt("r1", FileInfo("p2", p2, 1, <<>>, <<>>, <<>>)) >>)

InitIds ==
    \E e1, e2 \in IdEntries :
        ids = [state |-> "start", first |-> e1, second |-> e2,
               graph |-> WithFiles(e1.file_path, e2.file_path)]

\* _load_function(file_path, func) for an entry
LoadEntry(g, e) == Run(g, LoadFunction(e.file_path, Fn(e.name, e.line, "")))

LoadFirstFunction ==
    /\ ids.state = "start"
    /\ ids' = [ids EXCEPT !.state = "one", !.graph = LoadEntry(@, ids.first)]
    /\ UNCHANGED <<baseVars, notIds>>

LoadSecondFunction ==
    /\ ids.state = "one"
    /\ ids' = [ids EXCEPT !.state = "both", !.graph = LoadEntry(@, ids.second)]
    /\ UNCHANGED <<baseVars, notIds>>

NextIds == LoadFirstFunction \/ LoadSecondFunction

-----------------------------------------------------------------------------
(* VectorRetriever.get_embeddings and query.  A text is a Python value: a   *)
(* string, as the sequence of its characters, or None.                      *)

\* a variant that strips the texts and does not look at them again
ValidTextsOnePass(texts) ==
    [i \in 1..Len(texts) |->
        IF Truthy(texts[i]) THEN Str(Strip(texts[i].val)) ELSE Str(<<Blank>>)]

\* valid_texts = [text.strip() if text else " " for text in texts]
\* valid_texts = [text if text else " " for text in valid_texts]
ValidTexts(texts) ==
    LET stripped == [i \in 1..Len(texts) |->
                        IF Truthy(texts[i]) THEN Str(Strip(texts[i].val)) ELSE Str(<<Blank>>)]
    IN  [i \in 1..Len(texts) |->
            IF Truthy(stripped[i]) THEN stripped[i] ELSE Str(<<Blank>>)]

\* the texts get_embeddings is given
EmbTexts ==
    {PyNone, Str(<<>>), Str(<<Blank>>), Str(<<NL, Blank>>), Str(<<"x">>),
     Str(<<Blank, "x">>), Str(<<"x", NL>>), Str(<<"x", Blank, "y">>)}

InitEmb == emb = [state |-> "idle", texts |-> <<>>, sent |-> <<>>]

\* get_embeddings(texts) up to the call of embeddings.create
CallGetEmbeddings ==
    /\ emb.state = "idle"
    /\ \E n \in 0..MaxTexts : \E texts \in [1..n -> EmbTexts] :
           emb' = [state |-> "sent", texts |-> texts, sent |-> ValidTexts(texts)]
    /\ UNCHANGED <<baseVars, notEmb>>

\* embeddings.create returns one vector for each input
ProviderReturns ==
    /\ emb.state = "sent"
    /\ emb' = [emb EXCEPT !.state = "returned"]
    /\ UNCHANGED <<baseVars, notEmb>>

\* embeddings.create raises
ProviderRaises ==
    /\ emb.state = "sent"
    /\ emb' = [emb EXCEPT !.state = "raised"]
    /\ UNCHANGED <<baseVars, notEmb>>

NextEmb == CallGetEmbeddings \/ ProviderReturns \/ ProviderRaises

\* the vector of a text: the provider gives one vector for one input, the
\* same each time, and different vectors for different inputs
EmbedText(text) == [model |-> "text-embedding-3-large", input |-> ValidTexts(<<text>>)[1]]

\* the distance of the collection (cosine): 0 between a vector and itself
Distance(u, v) == IF u = v THEN 0 ELSE 1

\* what add_documents stores for a document of a new id
SearchEntry(id, text) == [id |-> id, document |-> text, embedding |-> EmbedText(text)]

SearchIds == {"c1", "c2", "c3"}
SearchTexts == {Str(<<>>), Str(<<Blank>>), Str(<<"x">>), Str(<<"x", Blank>>), Str(<<"y">>)}

\* a variant of the store that returns the entries farthest from the query first
IsRankingFarthest(coll, qv, n, r) ==
    /\ Len(r) = Min(n, Cardinality(coll))
    /\ \A i \in 1..Len(r) : r[i] \in coll
    /\ \A i, j \in 1..Len(r) : i < j =>
           r[i] # r[j] /\ Distance(qv, r[i].embedding) >= Distance(qv, r[j].embedding)
    /\ \A e \in coll : (\A i \in 1..Len(r) : r[i] # e) =>
           \A i \in 1..Len(r) : Distance(qv, e.embedding) <= Distance(qv, r[i].embedding)

\* collection.query(query_embeddings=[qv], n_results=n): the n entries nearest
\* to qv, or all of them if there are fewer, by ascending distance; entries
\* at the same distance come in any order
IsRanking(coll, qv, n, r) ==
    /\ Len(r) = Min(n, Cardinality(coll))
    /\ \A i \in 1..Len(r) : r[i] \in coll
    /\ \A i, j \in 1..Len(r) : i < j =>
           r[i] # r[j] /\ Distance(qv, r[i].embedding) <= Distance(qv, r[j].embedding)
    /\ \A e \in coll : (\A i \in 1..Len(r) : r[i] # e) =>
           \A i \in 1..Len(r) : Distance(qv, e.embedding) >= Distance(qv, r[i].embedding)

\* the collection holds what add_documents stored for up to three chunks
InitSrch ==
    \E S \in (SUBSET SearchIds) \ {{}} : \E f \in [S -> SearchTexts] :
        srch = [state |-> "idle", coll |-> {SearchEntry(id, f[id]) : id \in S},
                query_text |-> <<>>, k |-> 0, results |-> <<>>]

\* query(query_text, k) returns the formatted results
QueryReturns ==
    /\ srch.state = "idle"
    /\ \E q \in SearchTexts, k \in 1..MaxK :
       \E r \in [1..Min(k, Cardinality(srch.coll)) -> srch.coll] :
           /\ IsRanking(srch.coll, EmbedText(q), k, r)
           /\ srch' = [srch EXCEPT
                  !.state = "returned", !.query_text = q, !.k = k,
                  !.results = [i \in 1..Len(r) |->
                                  [id |-> r[i].id, text |-> r[i].document,
                                   distance |-> Distance(EmbedText(q), r[i].embedding)]]]
    /\ UNCHANGED <<baseVars, notSrch>>

\* the embedding provider or the store raises: query has no handler
QueryRaises ==
    /\ srch.state = "idle"
    /\ \E q \in SearchTexts, k \in 1..MaxK :
           srch' = [srch EXCEPT !.state = "raised", !.query_text = q, !.k = k]
    /\ UNCHANGED <<baseVars, notSrch>>

NextSrch == QueryReturns \/ QueryRaises

-----------------------------------------------------------------------------
(* Specifications *)

LoaderOff == InitLoader

\* GraphLoader on its store
Init == InitLoader /\ ChunkOff /\ FeOff /\ QueryOff /\ ExtOff
Spec == Init /\ [][NextLoader]_vars

\* chunk_code on every small content, chunk_size and overlap
InitSpecChunk == InitChunk /\ LoaderOff /\ FeOff /\ QueryOff /\ ExtOff
SpecChunk == InitSpecChunk /\ [][NextChunk]_vars

\* chunk_code with its defaults on texts of TextChars characters on TextLines lines
InitSpecChunkSized == InitChunkSized /\ LoaderOff /\ FeOff /\ QueryOff /\ ExtOff
SpecChunkSized == InitSpecChunkSized /\ [][NextChunk]_vars

\* FileExplorer on the filesystem
InitSpecFiles == FeOff /\ LoaderOff /\ ChunkOff /\ QueryOff /\ ExtOff
SpecFiles == InitSpecFiles /\ [][NextFe]_vars

\* DynamicGraphQueryTool on the graph store
InitSpecQuery == InitQuery /\ ChunkOff /\ FeOff /\ ExtOff
SpecQuery == InitSpecQuery /\ [][NextQuery]_vars

\* two concurrent load_repository calls
InitSpecConcurrent == InitPar /\ ChunkOff /\ FeOff /\ QueryOff /\ OffButPar
SpecConcurrent == InitSpecConcurrent /\ [][NextPar]_vars

BaseOff == LoaderOff /\ ChunkOff /\ FeOff /\ QueryOff

\* Neo4jClient.__init__; the loop body is straight-line code, so an iteration
\* that can run does run
InitSpecConnect == InitConn /\ BaseOff /\ OffButConn
SpecConnect == InitSpecConnect /\ [][NextConn]_vars /\ WF_vars(NextConn)

\* the bootstrap pipeline, run and abandoned and run again
InitSpecPipeline == PipeOff /\ BaseOff /\ OffButPipe
SpecPipeline == InitSpecPipeline /\ [][NextPipe]_vars

\* scan_repository on a tree of files
InitSpecScan == InitScan /\ BaseOff /\ OffButScan
SpecScan == InitSpecScan /\ [][NextScan]_vars

\* VectorRetriever on its collection
InitSpecIndex == InitVec /\ BaseOff /\ OffButVec
SpecIndex == InitSpecIndex /\ [][NextVec]_vars

\* tree_structure, the calls of _build_tree one after the other
InitSpecTree == InitBuild /\ BaseOff /\ OffButBuild
SpecTree == InitSpecTree /\ [][NextBuild]_vars /\ WF_vars(NextBuild)

\* two function entries through _load_function
InitSpecIds == InitIds /\ BaseOff /\ OffButIds
SpecIds == InitSpecIds /\ [][NextIds]_vars

\* get_embeddings on a list of texts
InitSpecEmbed == InitEmb /\ BaseOff /\ OffButEmb
SpecEmbed == InitSpecEmbed /\ [][NextEmb]_vars

\* query on a collection that add_documents filled
InitSpecSearch == InitSrch /\ BaseOff /\ OffButSrch
SpecSearch == InitSpecSearch /\ [][NextSrch]_vars

-----------------------------------------------------------------------------
(* Properties of GraphLoader *)

Labelled(g, label) == {k \in DOMAIN g.nodes : k[1] = label}

\* every node of label child has an edge rel from a node of label parent
HasParent(g, child, rel, parent) ==
    \A k \in Labelled(g, child) : \E r \in Labelled(g, parent) : <<rel, r, k>> \in g.edges

RefConsistent(g) ==
    /\ HasParent(g, "File", "CONTAINS", "Repository")
    /\ HasParent(g, "Function", "DEFINES", "File")
    /\ HasParent(g, "Class", "DEFINES", "File")
    /\ HasParent(g, "Module", "IMPORTS", "File")
    /\ HasParent(g, "Commit", "HAS_COMMIT", "Repository")
    /\ \A e \in g.edges : HasNode(g, e[2]) /\ HasNode(g, e[3])

\* the last call was _load_function or _load_class for a File that was not in the graph
OrphanCall == last.kind = "entity" /\ ~HasNode(last.before, last.op.match)

\* C1: when a load_repository(M) completes, after any number of loads of the
\* same M made in a row (complete, or interrupted by a store failure at any
\* statement), the graph equals the graph one uninterrupted load_repository(M)
\* produces from the graph the series started on.
C1_LoadIdempotent == status = "done" => graph = FullLoad(base, cur)

\* a load completed after an interrupted load of the same metadata
C1_Witness ==
    /\ status = "done"
    /\ series.n >= 2
    /\ series.failed
    /\ graph # base

\* C10: in every state reached while loading, the state a failed store call
\* leaves included, every File has a CONTAINS edge from a Repository, every
\* Function and Class a DEFINES edge from a File, every Module an IMPORTS edge
\* from a File and every Commit a HAS_COMMIT edge from a Repository; and a
\* Function or Class load whose File node does not exist writes nothing and
\* does not raise.
C10_RefConsistent ==
    /\ RefConsistent(graph)
    /\ OrphanCall => graph = last.before /\ status # "failed"

\* a Function or Class load for a missing File, made on a graph that an
\* interrupted load left partially populated
C10_Witness ==
    /\ OrphanCall
    /\ interrupted
    /\ Labelled(graph, "File") # {}
    /\ Labelled(graph, "Commit") = {}

-----------------------------------------------------------------------------
(* Properties of chunk_code *)

\* ls is the run of consecutive line numbers a..b
IsRun(ls) == ls # <<>> /\ \A k \in 1..Len(ls) : ls[k] = ls[1] + k - 1
LastOf(ls) == ls[Len(ls)]

\* C2: the chunks returned are runs of consecutive whole lines in order; the
\* first starts at line 1, each later one starts no later than the line after
\* the previous chunk's last line, and the last ends at the last line.
C2_Contiguous ==
    cstate = "done" =>
        /\ chunks # <<>>
        /\ \A i \in 1..Len(chunks) : IsRun(chunks[i])
        /\ chunks[1][1] = 1
        /\ \A i \in 2..Len(chunks) :
              /\ chunks[i][1] <= LastOf(chunks[i - 1]) + 1
              /\ chunks[i][1] >= chunks[i - 1][1]
              /\ LastOf(chunks[i]) >= LastOf(chunks[i - 1])
        /\ LastOf(chunks[Len(chunks)]) = Len(content)
        /\ \A l \in 1..Len(content) : \E i \in 1..Len(chunks) :
              \E k \in 1..Len(chunks[i]) : chunks[i][k] = l

\* several chunks were closed and lines are left after the last closed one
C2_Witness ==
    /\ cstate = "done"
    /\ Len(chunks) >= 3
    /\ Len(content) = MaxLines
    /\ Len(chunks[2]) >= 2
    /\ overlap > 0
    /\ chunk_size > 1

\* the text has TextChars characters on TextLines lines
IsSizedText ==
    /\ Len(content) = TextLines
    /\ TextLen(content, [i \in 1..Len(content) |-> i]) = TextChars

\* C3 as stated: with the defaults, a text of TextChars characters on TextLines
\* lines gives more than one chunk and every chunk but the last has a text
\* length of at least chunk_size.
C3_AsStated ==
    (cstate = "done" /\ IsSizedText) =>
        /\ Len(chunks) > 1
        /\ \A i \in 1..(Len(chunks) - 1) : TextLen(content, chunks[i]) >= chunk_size

\* C3 (amended): with the defaults, a text of TextChars characters on TextLines
\* lines gives more than one chunk, and every chunk but the last has an
\* accumulated size, each line counted as its length plus one, of at least
\* chunk_size: a text length of at least chunk_size - 1.
C3_SizedChunks ==
    (cstate = "done" /\ IsSizedText) =>
        /\ Len(chunks) > 1
        /\ \A i \in 1..(Len(chunks) - 1) :
              /\ SumLens(content, chunks[i]) + Len(chunks[i]) >= chunk_size
              /\ TextLen(content, chunks[i]) >= chunk_size - 1

\* a sized text chunked into three chunks, the second closed at exactly chunk_size
C3_Witness ==
    /\ cstate = "done"
    /\ IsSizedText
    /\ Len(chunks) >= 3
    /\ SumLens(content, chunks[2]) + Len(chunks[2]) = chunk_size

-----------------------------------------------------------------------------
(* Properties of FileExplorer *)

\* the repository directory of the last call, and the location its path names
RepoDir == Resolve(<<>>, Join(base_path, feCall.repo_name))
Target == Resolve(<<>>, Join(Join(base_path, feCall.repo_name), feCall.path))

\* C4: read_file and list_directory given a path whose resolved location is
\* not the repository directory or below it return the access-denied text and
\* access no filesystem entry.
C4_TraversalDenied ==
    (feCall.op \in {"read_file", "list_directory"} /\ ~IsPrefix(RepoDir, Target)) =>
        /\ feRet.kind = "access_denied"
        /\ feTouched = {}

\* read_file("r1", "../../etc/passwd")-style calls: a path that leaves the
\* repository through "..", and one that leaves it through a symbolic link
C4_Witness ==
    /\ feCall.op = "read_file"
    /\ feCall.repo_name = Arg(FALSE, <<"r1">>)
    /\ feCall.path \in {Arg(FALSE, <<"..", "..", "etc">>), Arg(FALSE, <<"lnk", "passwd">>)}
    /\ feRet.kind = "access_denied"

\* C5: no operation of FileExplorer, whatever its repo_name and path, reads,
\* lists or reports the existence or size of an entry outside base_path.
C5_Confined == \A loc \in feTouched : IsPrefix(base_path, loc)

-----------------------------------------------------------------------------
(* Properties of DynamicGraphQueryTool *)

InvalidQueryText == << <<"invalid_query">> >>
NoResultsText == << <<"no_results">> >>
ErrorTexts ==
    {<< <<"error_executing_query">> >>, << <<"error_generating_and_executing">> >>}

\* the store was called and ran the query without raising
StoreRan == storeCalls # <<>> /\ ~qCall.o.raise /\ Parseable(storeCalls[1])
\* the store was called and raised
StoreRaised == storeCalls # <<>> /\ (qCall.o.raise \/ ~Parseable(storeCalls[1]))

\* C6: for a non-empty result list of n records and max_results >= 0, the
\* text of execute_query holds exactly min(n, max_results) record blocks, the
\* first min(n, max_results) records in store order, and ends with a suffix
\* naming n - max_results more results exactly when n > max_results.
C6_FormatLimit ==
    (/\ qCall.op = "execute_query"
     /\ qRecords # <<>>
     /\ qCall.max_results.int
     /\ qCall.max_results.n >= 0) =>
        LET n == Len(qRecords)
            m == qCall.max_results.n
            k == Min(n, m)
        IN  /\ Len(qRet) = 1 + k + (IF n > m THEN 1 ELSE 0)
            /\ qRet[1] = <<"query_returned", n>>
            /\ \A i \in 1..k : qRet[i + 1] = <<"result", i, qRecords[i]>>
            /\ n > m => qRet[Len(qRet)] = <<"more_results", n - m>>

\* ManyRecords records with the default max_results: DefaultMaxResults blocks
\* and a suffix naming the rest
C6_Witness ==
    /\ qCall.op = "execute_query"
    /\ Len(qRecords) = ManyRecords
    /\ qCall.max_results = [int |-> TRUE, n |-> DefaultMaxResults]
    /\ Len(qRet) = DefaultMaxResults + 2
    /\ qRet[Len(qRet)] = <<"more_results", ManyRecords - DefaultMaxResults>>

\* C7: query_from_natural_language and execute_query return a non-empty text
\* and never raise, whatever the input and whatever the text generator and
\* the store do; zero records give the no-results message, an exception at
\* generation or at execution an error message, and a generator that is not
\* initialised its own message.
C7_Total ==
    qCall.op \in {"execute_query", "query_from_natural_language"} =>
        /\ ~qRaised
        /\ qRet # <<>>
        /\ (StoreRan /\ qRecords = <<>>) => qRet = NoResultsText
        /\ StoreRaised => qRet \in ErrorTexts
        /\ (qCall.op = "query_from_natural_language" /\ qCall.llm.type = "raise")
              => qRet \in ErrorTexts
        /\ (qCall.op = "query_from_natural_language" /\ qCall.llm.type = "none")
              => qRet = << <<"llm_not_initialized">> >>

\* a generated query on which the store raises
C7_Witness ==
    /\ qCall.op = "query_from_natural_language"
    /\ qCall.llm.type = "str"
    /\ qCall.o.raise
    /\ storeCalls # <<>>
    /\ qRet \in ErrorTexts

\* C8: execute_query given a value that is not a string, or the empty string,
\* returns the invalid-query text and makes no call to the store.
C8_InvalidRejected ==
    (qCall.op = "execute_query" /\ (qCall.arg.type # "str" \/ qCall.arg.val = <<>>)) =>
        /\ qRet = InvalidQueryText
        /\ storeCalls = <<>>
        /\ graph = qBefore

\* execute_query(5): a value that is true and not a string
C8_Witness ==
    /\ qCall.op = "execute_query"
    /\ qCall.arg = [type |-> "int", val |-> <<"5">>]
    /\ qRet = InvalidQueryText
    /\ storeCalls = <<>>

\* C9: validate_query leaves the graph as it found it, whatever the query
\* and whatever the store does at the EXPLAIN call.
C9_ValidateReadOnly == qCall.op = "validate_query" => graph = qBefore

-----------------------------------------------------------------------------
(* Properties of GraphLoader: order of the writes, constraints *)

\* the place of a statement in the order of load_repository(m): <<0, 0>> for
\* the Repository, <<i, stage>> for the statements of the i-th File entry
\* (File 0, Function 1, Class 2, import 3), <<number of files + 1, 0>> for a Commit
FileIdx(m, full_path) == CHOOSE i \in 1..Len(m.files) : m.files[i].full_path = full_path
Place(m, w) ==
    CASE w.kind = "repo" -> <<0, 0>>
      [] w.kind = "file" -> <<FileIdx(m, w.node[2]), 0>>
      [] w.kind = "func" -> <<FileIdx(m, w.match[2]), 1>>
      [] w.kind = "class" -> <<FileIdx(m, w.match[2]), 2>>
      [] w.kind = "import" -> <<FileIdx(m, w.match[2]), 3>>
      [] w.kind = "commit" -> <<Len(m.files) + 1, 0>>
NotAfter(a, b) == a[1] < b[1] \/ (a[1] = b[1] /\ a[2] <= b[2])

\* the number of statements of one File entry
FileWrites(fi) == 1 + Len(fi.functions) + Len(fi.classes) + Len(fi.imports)
RECURSIVE SumFileWrites(_)
SumFileWrites(files) ==
    IF files = <<>> THEN 0 ELSE FileWrites(Head(files)) + SumFileWrites(Tail(files))

\* C11: within one load_repository call the Repository node is written first;
\* then, File entry by File entry in metadata order, the File node with its
\* CONTAINS edge, its Functions, its Classes, its imports; and every Commit
\* after the writes of the last File entry.  A completed call has made every
\* one of these writes.
C11_WriteOrder ==
    writes # <<>> =>
        /\ writes[1].kind = "repo"
        /\ writes[1].node = <<"Repository", cur.name>>
        /\ \A i \in 2..Len(writes) : writes[i].kind # "repo"
        /\ \A i \in 1..Len(writes) :
              writes[i].kind = "file" =>
                  /\ writes[i].rel = "CONTAINS"
                  /\ writes[i].match = <<"Repository", cur.name>>
        /\ \A i, j \in 1..Len(writes) :
              i < j => NotAfter(Place(cur, writes[i]), Place(cur, writes[j]))
        /\ status = "done" =>
              Len(writes) = 1 + SumFileWrites(cur.files) + Len(cur.commits)

\* a completed load of a repository of two files and two commits
C11_Witness ==
    /\ status = "done"
    /\ Len(cur.files) >= 2
    /\ Len(cur.commits) >= 2
    /\ writes[Len(writes)].kind = "commit"
    /\ writes[2].kind = "file"

Requested == {requested[i] : i \in 1..Len(requested)}

\* C12: before the first write of a load_repository call a uniqueness
\* constraint has been requested for every key field of the graph model, and
\* a constraint request that raised has not kept the load from running.
C12_AllKeysConstrained == writes # <<>> => KeyFields \subseteq Requested

-----------------------------------------------------------------------------
(* Properties of concurrent loads *)

ParAllDone == par.loads # <<>> /\ ParDone(1) /\ ParDone(2)

\* C13: two load_repository calls on metadata of different repository names,
\* interleaved statement by statement in any way, leave at most one node per
\* key (one Module node for a name both import) and the graph that the two
\* loads leave when run one after the other, in either order.
C13_ConcurrentLoads ==
    /\ par.loads # <<>> => \A k \in DOMAIN graph.nodes : graph.nodes[k].cnt = 1
    /\ ParAllDone =>
          /\ graph = FullLoad(FullLoad(base, par.loads[1].m), par.loads[2].m)
          /\ graph = FullLoad(FullLoad(base, par.loads[2].m), par.loads[1].m)

\* both calls are over after their statements alternated, and the Module "os"
\* that both repositories import is imported by a file of each
C13_Witness ==
    /\ ParAllDone
    /\ par.switches >= 2
    /\ HasNode(graph, <<"Module", "os">>)
    /\ \E e1, e2 \in graph.edges :
          /\ e1[1] = "IMPORTS" /\ e1[3] = <<"Module", "os">>
          /\ e2[1] = "IMPORTS" /\ e2[3] = <<"Module", "os">>
          /\ e1[2] = <<"File", "/d/r2/c.py">>
          /\ e2[2][2] # "/d/r2/c.py"

-----------------------------------------------------------------------------
(* Properties of Neo4jClient.__init__ *)

ConnOver == conn.state \in {"connected", "raised", "returned"}

\* at most n attempts, every attempt before the last one made has failed, the
\* k-th wait is 2^(k-1) seconds and follows each failed attempt but the n-th,
\* and the error of the n-th failed attempt is raised exactly when n attempts failed
ConnSafe ==
    conn.n >= 1 =>
        /\ conn.attempt <= conn.n
        /\ Len(conn.errors) \in {conn.attempt - 1, conn.attempt}
        /\ conn.state = "connected" <=> Len(conn.errors) = conn.attempt - 1
        /\ conn.state = "trying" => Len(conn.errors) = conn.attempt
        /\ Len(conn.waits) = Min(Len(conn.errors), conn.n - 1)
        /\ \A k \in 1..Len(conn.waits) : conn.waits[k] = 2 ^ (k - 1)
        /\ conn.state = "raised" <=> Len(conn.errors) = conn.n
        /\ conn.state = "raised" => conn.raised = conn.errors[conn.n]
        /\ conn.state # "raised" => conn.raised = ""

\* C14: Neo4jClient(max_retries=n), n >= 1, terminates; it makes at most n
\* attempts and stops at the first that succeeds, sleeps 2^i seconds after
\* failed attempt i (from 0) for i < n - 1 and not after the last, and raises
\* the last error exactly when all n attempts failed.
C14_BoundedRetry == []ConnSafe /\ <>ConnOver

\* the last of several attempts failed after waits of 1, 2 and 4 seconds
C14_Witness ==
    /\ conn.state = "raised"
    /\ conn.n >= 4
    /\ Len(conn.waits) = conn.n - 1
    /\ conn.waits[3] = 4
    /\ conn.raised = "auth"
    /\ conn.errors[1] = "unavailable"

-----------------------------------------------------------------------------
(* Properties of the bootstrap pipeline *)

\* C15: whenever a run is abandoned the persisted metadata document is still
\* a complete document, and a run made from scratch afterwards completes with
\* the persisted state of a run that was never interrupted.
C15_AbandonSafe ==
    /\ pipe.meta # "truncated"
    /\ pipe.phase = "done" =>
          /\ pipe.repo = "complete"
          /\ pipe.meta = "of_complete"
          /\ pipe.index = {"of_complete"}
          /\ pipe.loaded = "of_complete"

IsPrefixOf(s, t) == Len(s) <= Len(t) /\ SubSeq(t, 1, Len(s)) = s
StageLog(order) ==
    << <<order[1], "start">>, <<order[1], "end">>, <<order[2], "start">>,
       <<order[2], "end">>, <<order[3], "start">>, <<order[3], "end">> >>
InOrder(order) ==
    /\ IsPrefixOf(pipe.log, StageLog(order))
    /\ pipe.phase = "done" => pipe.log = StageLog(order)

\* C16 as stated: one run performs repository scan, then graph load, then
\* chunk indexing, each stage starting after the previous one has finished.
C16_AsStated == InOrder(<<"scan", "graph", "index">>)

\* C16 (amended): one run performs repository scan, then chunk indexing, then
\* graph load, each stage starting after the previous one has finished.
C16_StageOrder == InOrder(<<"scan", "index", "graph">>)

\* a run that went through its three stages
C16_Witness ==
    /\ pipe.phase = "done"
    /\ Len(pipe.log) = 6
    /\ pipe.log[3] = <<"index", "start">>
    /\ pipe.loaded = "of_complete"

-----------------------------------------------------------------------------
(* Properties of scan_repository *)

\* the files of the tree the scan does not skip, by their number in Tree
Candidates == {n \in 1..Len(Tree) : ~Skipped(PyFile(scan.repo_name, Tree[n]))}
EntriesOf(n) == {i \in 1..Len(scan.files_metadata) : scan.files_metadata[i].n = n}

\* C17: extract_python_metadata never raises and gives a file that cannot be
\* read or parsed empty functions, classes and imports and 0 lines; so a scan
\* completes, whatever files are malformed, with exactly one File entry for
\* every candidate file.
C17_ScanCompletes ==
    /\ scan.state # "raised"
    /\ \A i \in 1..Len(scan.files_metadata) :
          LET e == scan.files_metadata[i]
          IN  scan.conds[e.n] # "ok" =>
                /\ e.functions = <<>>
                /\ e.classes = <<>>
                /\ e.imports = <<>>
                /\ e.lines = 0
    /\ scan.state = "done" =>
          /\ \A n \in Candidates : Cardinality(EntriesOf(n)) = 1
          /\ Len(scan.files_metadata) = Cardinality(Candidates)

\* a scan that completed over an unreadable file, an unparsable one and a good one
C17_Witness ==
    /\ scan.state = "done"
    /\ \E i, j, k \in 1..Len(scan.files_metadata) :
          /\ scan.conds[scan.files_metadata[i].n] = "unreadable"
          /\ scan.conds[scan.files_metadata[j].n] = "syntax_error"
          /\ scan.conds[scan.files_metadata[k].n] = "ok"
          /\ scan.files_metadata[k].lines > 0

\* the directory names of the deny-list
DenyNames == { <<".git">>, <<"venv">> }
\* the directories on the way from repo_path to the file
DirsOf(rel) == {rel[i] : i \in 1..(Len(rel) - 1)}

\* C18: a scan includes a .py file found under the repository root exactly
\* when no directory on its path has a deny-listed name; a file whose name,
\* or whose other directories, only contain the text of such a name is included.
C18_DenyByName ==
    scan.state = "done" =>
        \A n \in 1..Len(Tree) :
            EntriesOf(n) # {} <=> DirsOf(Tree[n]) \cap DenyNames = {}

-----------------------------------------------------------------------------
(* Properties of the vector index *)

VecOver == vec.state \in {"returned", "raised"}

\* the ids of the documents of the call are pairwise different
DistinctIds ==
    \A j, k \in 1..Len(vec.documents) :
        j # k => vec.documents[j].id # vec.documents[k].id

\* the batches are consecutive slices of at most batch_size documents, in
\* input order; when the call returns every document has been in one batch
BatchesInOrder ==
    /\ \A k \in 1..Len(vec.embedded) :
           vec.embedded[k] # <<>> /\ Len(vec.embedded[k]) <= vec.batch_size
    /\ IsPrefixOf(vec.stored, vec.embedded)
    /\ IsPrefixOf(Concat(vec.embedded), vec.documents)
    /\ vec.state = "returned" =>
           Concat(vec.stored) = vec.documents /\ vec.embedded = vec.stored

\* a failure on a batch is raised, the batch is the last one taken, and what
\* the earlier batches stored stays
FailureStops ==
    /\ vec.state = "adding" => vec.embedded = vec.stored
    /\ vec.state = "raised" =>
           /\ vec.cause # ""
           /\ Len(vec.embedded) = Len(vec.stored) + 1
           /\ vec.before \cup vec.added \subseteq vec.coll

\* after a normal return every document is in the collection as it was given
AllStored ==
    (vec.state = "returned" /\ DistinctIds) =>
        \A k \in 1..Len(vec.documents) : Entry(vec.documents[k]) \in vec.coll

\* C19: add_documents takes its documents in consecutive batches of at most
\* batch_size, in input order, each document in one batch; a failure of the
\* embedding provider or of the store on a batch is raised, the earlier
\* batches stay stored and no later batch is taken; after a normal return
\* every document is stored with the id, text and metadata given.
C19_AddDocuments == BatchesInOrder /\ FailureStops /\ AllStored

\* add_repo_to_index has ended on a collection that held chunks of the
\* repository, with the embedding provider and the store available
ReIndexed ==
    /\ vec.op = "add_repo_to_index"
    /\ VecOver
    /\ vec.cause \notin {"embedding", "store"}
    /\ \E e \in vec.before : e.id[1] = IndexRepo

\* C20: a re-ingestion with add_repo_to_index completes and overwrites by
\* id: afterwards the index holds, for each chunk id of the latest run, one
\* entry, with the text, vector and metadata of the latest run.
C20_ReindexOverwrites ==
    ReIndexed =>
        /\ vec.state = "returned"
        /\ \A k \in 1..Len(vec.documents) :
               {e \in vec.coll : e.id = vec.documents[k].id} = {Entry(vec.documents[k])}

-----------------------------------------------------------------------------
(* Properties of the query sent to the store *)

AllWhitespace(t) == \A i \in 1..Len(t) : t[i] \in Whitespace

\* the places of the first and of the last code fence of a text
FirstFence(t) == CHOOSE i \in 1..Len(t) : t[i] = Fence /\ \A j \in 1..(i - 1) : t[j] # Fence
LastFence(t) == CHOOSE i \in 1..Len(t) : t[i] = Fence /\ \A j \in (i + 1)..Len(t) : t[j] # Fence

\* what stands between the opening fence, with its "cypher" if any, and the
\* closing fence
Inside(t) ==
    LET m == SubSeq(t, FirstFence(t) + 1, LastFence(t) - 1)
    IN  IF m # <<>> /\ Head(m) = "cypher" THEN Tail(m) ELSE m

\* whitespace, an opening fence, a query body, a closing fence, whitespace
IsFenced(t) ==
    /\ \E i \in 1..Len(t) : t[i] = Fence
    /\ FirstFence(t) < LastFence(t)
    /\ AllWhitespace(SubSeq(t, 1, FirstFence(t) - 1))
    /\ AllWhitespace(SubSeq(t, LastFence(t) + 1, Len(t)))
    /\ \A i \in 1..Len(Inside(t)) : Inside(t)[i] \notin {Fence, "cypher"}
    /\ ~AllWhitespace(Inside(t))

FencedCall ==
    /\ qCall.op = "execute_query"
    /\ qCall.arg.type = "str"
    /\ IsFenced(qCall.arg.val)

\* C25: for a query text made of optional whitespace, an opening code fence
\* with or without "cypher", a query body, a closing fence and optional
\* whitespace, execute_query sends the store the body alone, with no fence
\* and no whitespace around it.
C25_FenceStripped == FencedCall => storeCalls = << Strip(Inside(qCall.arg.val)) >>

\* C28: execute_query never passes an empty query to the store: a text that
\* is empty once cleaned is answered with the invalid-query error and no
\* store call is made.
C28_NeverEmpty ==
    (qCall.op = "execute_query" /\ qCall.arg.type = "str") =>
        /\ \A i \in 1..Len(storeCalls) : storeCalls[i] # <<>>
        /\ CleanQuery(qCall.arg.val) = <<>> =>
               qRet = InvalidQueryText /\ storeCalls = <<>>

-----------------------------------------------------------------------------
(* Properties of tree_structure *)

BuildDone == build.state = "done"

\* the lines so far are at most max_depth levels below the repository, none
\* when max_depth <= 0, and no name on the way to an entry is excluded
BuildSafe ==
    /\ build.max_depth <= 0 => build.lines = <<>>
    /\ \A k \in 1..Len(build.lines) :
          LET rel == SubSeq(build.lines[k][2], Len(base_path \o build.repo_name) + 1,
                            Len(build.lines[k][2]))
          IN  /\ Len(rel) <= build.max_depth
              /\ Len(rel) = build.lines[k][1] + 1
              /\ \A j \in 1..Len(rel) : rel[j] \notin ignore_dirs
    /\ Len(build.stack) <= Max(build.max_depth, 0) + 1

\* C26: tree_structure terminates for every directory structure, cyclic
\* directory links included, and every max_depth; it lists only entries at
\* most max_depth levels below the repository, nothing when max_depth <= 0,
\* and never lists or enters an entry whose name is excluded.
C26_TreeBounded == []BuildSafe /\ <>BuildDone

\* a tree through the cyclic link, down to the depth limit, has been built
C26_Witness ==
    /\ BuildDone
    /\ build.repo_name = <<"r2">>
    /\ build.max_depth = MaxDepth
    /\ \E k \in 1..Len(build.lines) :
          build.lines[k] = <<MaxDepth - 1,
              base_path \o <<"r2">> \o [j \in 1..MaxDepth |-> "loop"]>>
    /\ [k \in 1..Len(build.lines) |->
           <<build.lines[k][1], build.lines[k][2][Len(build.lines[k][2])]>>]
       = BuildTree(base_path \o <<"r2">>, 0, MaxDepth).lines

-----------------------------------------------------------------------------
(* Properties of the overlap between chunks *)

\* the lines of cc from place j on, and their size, a line counted as its
\* length plus one
SuffixFrom(cc, j) == SubSeq(cc, j, Len(cc))
SuffixSize(cc, j) == SumLens(content, SuffixFrom(cc, j)) + Len(SuffixFrom(cc, j))

\* the shortest suffix of cc, of one line at least, whose size is at least
\* overlap, or all of cc when no suffix is that large
ShortestSuffix(cc) ==
    LET reach == {j \in 1..Len(cc) : SuffixSize(cc, j) >= overlap}
    IN  IF reach = {} THEN cc
        ELSE SuffixFrom(cc, CHOOSE j \in reach : \A k \in reach : k <= j)

\* the loop has just closed a chunk, at line idx
JustClosed == cstate = "loop" /\ chunks # <<>> /\ LastOf(LastOf(chunks)) = idx

\* C24: when chunk_code closes a chunk the next chunk starts with exactly the
\* shortest suffix of the closed chunk's lines whose size is at least
\* overlap, or with all its lines when no suffix is that large; the suffix
\* has one line at least, so two adjacent chunks share the last line of the
\* earlier one.
C24_OverlapSuffix ==
    /\ JustClosed =>
          /\ current_chunk = ShortestSuffix(LastOf(chunks))
          /\ current_chunk # <<>>
    /\ cstate = "done" =>
          \A i \in 2..Len(chunks) :
              /\ IsPrefixOf(ShortestSuffix(chunks[i - 1]), chunks[i])
              /\ \E k \in 1..Len(chunks[i]) : chunks[i][k] = LastOf(chunks[i - 1])

\* a chunk of three lines or more was closed and the next chunk starts with
\* its last two lines
C24_Witness ==
    /\ cstate = "done"
    /\ \E i \in 2..Len(chunks) :
          /\ Len(chunks[i - 1]) >= 3
          /\ Len(ShortestSuffix(chunks[i - 1])) = 2
          /\ Len(chunks[i]) > 2

\* C27: every chunk returned after the first has a line that comes after the
\* last line of the chunk before it, also when the content ends where a
\* chunk is closed.
C27_NewLineInEachChunk ==
    cstate = "done" =>
        \A i \in 2..Len(chunks) : LastOf(chunks[i]) > LastOf(chunks[i - 1])

-----------------------------------------------------------------------------
(* Properties of the client after construction *)

\* __init__ returned without raising
ConnReturned == conn.state \in {"connected", "returned"}

\* self.driver after __init__: set by the attempt that succeeded, or never
\* set to a driver that passed verify_connectivity
DriverVerified == conn.state = "connected" /\ conn.attempt >= 1

\* C29: for every max_retries, 0 and negative values included, a construction
\* that returns without raising leaves a driver whose connectivity a
\* successful attempt verified, so that run has a driver to use.
C29_DriverAfterInit == ConnReturned => DriverVerified

-----------------------------------------------------------------------------
(* Properties of what a load leaves in place *)

\* every node and every edge of the store before the step is in it after
Preserved ==
    /\ DOMAIN graph.nodes \subseteq DOMAIN graph'.nodes
    /\ \A k \in DOMAIN graph.nodes : graph'.nodes[k].cnt >= graph.nodes[k].cnt
    /\ graph.edges \subseteq graph'.edges

\* C30: load_repository only adds or updates: every node and edge of the
\* graph before a call is in it after the call, for any metadata; after a
\* load of M1 and then of M2 under the same repository name the File,
\* Function, Class, Module and Commit nodes of M1 that M2 does not have
\* are still there, with their edges.
C30_OnlyAdds == [][Preserved]_vars

\* r1 was loaded as first scanned and then as scanned again: the class and
\* the function that the second scan no longer has are in the graph, with
\* the edges from their file
C30_Witness ==
    /\ status = "done"
    /\ cur = MetaB
    /\ base = FullLoad(EmptyGraph, MetaA)
    /\ LET k == <<"Class", FuncId("/d/r1/a.py", "K", 5)>>
           f == <<"Function", FuncId("/d/r1/a.py", "foo", 1)>>
       IN  /\ HasNode(graph, k)
           /\ HasNode(graph, f)
           /\ <<"DEFINES", <<"File", "/d/r1/a.py">>, k>> \in graph.edges
           /\ <<"DEFINES", <<"File", "/d/r1/a.py">>, f>> \in graph.edges
           /\ ~HasNode(FullLoad(EmptyGraph, MetaB), k)

-----------------------------------------------------------------------------
(* Properties of the Function ID *)

IdOf(e) == FuncId(e.file_path, e.name, e.line)

\* C22: within one run the Function ID built from the file path, the
\* function name and the declaration line is injective: two entries that
\* differ in path, name or line never get the same id, and each is stored as
\* its own Function node.
C22_IdInjective ==
    ids.first # ids.second =>
        /\ IdOf(ids.first) # IdOf(ids.second)
        /\ ids.state = "both" =>
              /\ Labelled(ids.graph, "Function")
                    = {<<"Function", IdOf(ids.first)>>, <<"Function", IdOf(ids.second)>>}
              /\ Cardinality(Labelled(ids.graph, "Function")) = 2
              /\ \A k \in Labelled(ids.graph, "Function") : ids.graph.nodes[k].cnt = 1

\* two entries whose parts spell the same text when put side by side, and a
\* path that itself holds "::", are both stored
C22_Witness ==
    /\ ids.state = "both"
    /\ ids.first = [file_path |-> "/d/r1/a.py", name |-> "f1", line |-> 1]
    /\ ids.second = [file_path |-> "/d/r1/a.py", name |-> "f", line |-> 11]
    /\ Cardinality(Labelled(ids.graph, "Function")) = 2

-----------------------------------------------------------------------------
(* Properties of get_embeddings and query *)

\* the text is empty, missing, or made of whitespace only
IsBlankText(v) == ~Truthy(v) \/ AllWhitespace(v.val)

\* C21: the list get_embeddings sends to the provider has the length and the
\* order of its input and holds no empty string: a text that is empty,
\* missing or made only of whitespace is sent as a single space.
C21_NoEmptyInput ==
    emb.state # "idle" =>
        /\ Len(emb.sent) = Len(emb.texts)
        /\ \A i \in 1..Len(emb.texts) :
              /\ emb.sent[i].type = "str"
              /\ emb.sent[i].val # <<>>
              /\ IsBlankText(emb.texts[i]) => emb.sent[i] = Str(<<Blank>>)
              /\ ~IsBlankText(emb.texts[i]) => emb.sent[i] = Str(Strip(emb.texts[i].val))

\* blank texts of every kind between two texts that are not blank
C21_Witness ==
    /\ emb.state = "returned"
    /\ emb.texts = << Str(<<"x", NL>>), Str(<<NL, Blank>>), PyNone >>
    /\ emb.sent = << Str(<<"x">>), Str(<<Blank>>), Str(<<Blank>>) >>

\* the chunks of the index whose stored text is the text of the query
SameText == {e \in srch.coll : e.document = srch.query_text}
\* those whose vector is the vector of the query
SameVector == {e \in srch.coll : e.embedding = EmbedText(srch.query_text)}

====
